---- MODULE Spec2Model ----
(***************************************************************************)
(* Retrieval-and-citation pipeline of the legal research agent:            *)
(* the tool entry points legal_answer, legal_classify, isaacus_search,     *)
(* list_matter_documents and get_document_text (apps/agent/src/tools),     *)
(* composed with IsaacusClient (apps/agent/src/services) and the document  *)
(* store reached over HTTP.  One tool invocation runs at a time; every     *)
(* await on an external service is one step whose outcome is chosen by     *)
(* the environment.                                                        *)
(*                                                                         *)
(* Strings the pipeline builds or measures (ids, chunk contents, answers,  *)
(* permalinks) are sequences of one-character strings.  Scores are in      *)
(* tenths (5 stands for 0.5).  An absent or None value of a dict key is    *)
(* the empty sequence.                                                     *)
(***************************************************************************)
EXTENDS Integers, Sequences, FiniteSets, TLC

\* ------------------------------------------------------------------ bounds
MaxCandidates == 4          \* rows in one search response
MaxRerank == 2              \* items in one reranker response
MaxMatches == 2             \* spans in one classify_iql response
MaxOffset == 4              \* largest offset an external service reports
MaxDocIdArgs == 1           \* ids in a caller-supplied document_ids list
MaxIdLen == 2               \* characters of an id given to the formatter
MaxPermalinkOffset == 11    \* largest offset given to the formatter
MaxRetries == 3             \* largest max_retries given to DeepSeekOCR
MaxPages == 2               \* pages of a PDF given to DocumentProcessor

\* ----------------------------------------------------------- text helpers
Min(a, b) == IF a < b THEN a ELSE b

Whitespace == {" "}

\* not s.strip()
IsBlank(s) == \A i \in 1..Len(s) : s[i] \in Whitespace

\* s[:n]
Take(s, n) == SubSeq(s, 1, Min(n, Len(s)))

Digit == <<"0", "1", "2", "3", "4", "5", "6", "7", "8", "9">>

\* str(n) for a natural number, as the f-string renders it
RECURSIVE Dec(_)
Dec(n) == IF n < 10 THEN <<Digit[n + 1]>>
          ELSE Dec(n \div 10) \o <<Digit[(n % 10) + 1]>>

IndexOf(s, ch) == IF \E i \in 1..Len(s) : s[i] = ch
                  THEN CHOOSE i \in 1..Len(s) :
                         s[i] = ch /\ \A j \in 1..(i - 1) : s[j] # ch
                  ELSE 0

IsDigits(s) == Len(s) > 0 /\ \A i \in 1..Len(s) : \E d \in 1..10 : Digit[d] = s[i]

RECURSIVE ToNat(_)
ToNat(s) ==
    LET DigitValue(ch) == (CHOOSE d \in 1..10 : Digit[d] = ch) - 1
    IN  IF Len(s) = 0 THEN 0
        ELSE 10 * ToNat(SubSeq(s, 1, Len(s) - 1)) + DigitValue(s[Len(s)])

CitePrefix == <<"c", "i", "t", "e", ":">>

\* ------------------------------------------------- permalink construction
\* legal_answer: f"cite:{document_id}#{chunk_id}@{start_pos}-{end_pos}"
AnswerPermalink(document_id, chunk_id, start_pos, end_pos) ==
    CitePrefix \o document_id \o <<"#">> \o chunk_id
        \o <<"@">> \o Dec(start_pos) \o <<"-">> \o Dec(end_pos)

\* isaacus_search: f"cite:{document_id}#{chunk_id}" if chunk_id else f"cite:{document_id}"
SearchPermalink(document_id, chunk_id) ==
    IF chunk_id # <<>> THEN CitePrefix \o document_id \o <<"#">> \o chunk_id
    ELSE CitePrefix \o document_id

\* legal_classify: f"cite:{doc_id}@{start_idx}-{end_idx}"
ClassifyPermalink(doc_id, start_idx, end_idx) ==
    CitePrefix \o doc_id \o <<"@">> \o Dec(start_idx) \o <<"-">> \o Dec(end_idx)

\* ---------------------------------------------------- permalink grammar
\* The viewer's reading of a permalink, by the four grammar forms:
\*   cite:<doc> | cite:<doc>#<chunk> | cite:<doc>#<chunk>@<s>-<e> | cite:<doc>@<s>-<e>
\* <doc> and <chunk> are non-empty and hold neither '#' nor '@'.
ParsePermalink(p) ==
    LET hasPrefix == Len(p) >= 5 /\ SubSeq(p, 1, 5) = CitePrefix
        body == IF hasPrefix THEN SubSeq(p, 6, Len(p)) ELSE <<>>
        at == IndexOf(body, "@")
        idPart == IF at = 0 THEN body ELSE SubSeq(body, 1, at - 1)
        offPart == IF at = 0 THEN <<>> ELSE SubSeq(body, at + 1, Len(body))
        hash == IndexOf(idPart, "#")
        doc == IF hash = 0 THEN idPart ELSE SubSeq(idPart, 1, hash - 1)
        chunk == IF hash = 0 THEN <<>> ELSE SubSeq(idPart, hash + 1, Len(idPart))
        dash == IndexOf(offPart, "-")
        startDigits == IF dash = 0 THEN <<>> ELSE SubSeq(offPart, 1, dash - 1)
        endDigits == IF dash = 0 THEN <<>> ELSE SubSeq(offPart, dash + 1, Len(offPart))
        offOk == at = 0 \/ (IsDigits(startDigits) /\ IsDigits(endDigits))
        ok == /\ hasPrefix
              /\ Len(doc) > 0
              /\ (hash # 0 => Len(chunk) > 0 /\ IndexOf(chunk, "#") = 0)
              /\ offOk
    IN  IF ok
        THEN [ok |-> TRUE, document_id |-> doc, chunk_id |-> chunk,
              has_offsets |-> at # 0,
              start |-> IF at # 0 THEN ToNat(startDigits) ELSE 0,
              end |-> IF at # 0 THEN ToNat(endDigits) ELSE 0]
        ELSE [ok |-> FALSE, document_id |-> <<>>, chunk_id |-> <<>>,
              has_offsets |-> FALSE, start |-> 0, end |-> 0]

IsPermalink(p) == ParsePermalink(p).ok

\* ------------------------------------------------------- document store
\* Rows of the documents table, in uploaded_at.desc order.
DocStore == <<
    [id |-> <<"d", "1">>, matter_id |-> "m1", processing_status |-> "ready",
     filename |-> "A.pdf", extracted_text |-> <<"a", "b", " ", "c", "d">>],
    [id |-> <<"d", "2">>, matter_id |-> "m1", processing_status |-> "ready",
     filename |-> "B.pdf", extracted_text |-> <<"e", "f", "g">>],
    [id |-> <<"d", "3">>, matter_id |-> "m1", processing_status |-> "pending",
     filename |-> "C.pdf", extracted_text |-> <<>>],
    [id |-> <<"d", "4">>, matter_id |-> "m2", processing_status |-> "ready",
     filename |-> "D.pdf", extracted_text |-> <<"x", "y">>],
    [id |-> <<"d", "5">>, matter_id |-> "m1", processing_status |-> "ready",
     filename |-> "E.pdf", extracted_text |-> <<" ">>] >>

Matters == {"m1", "m2", "m3"}

DocIds == {DocStore[i].id : i \in 1..Len(DocStore)}

DocById(id) == DocStore[CHOOSE i \in 1..Len(DocStore) : DocStore[i].id = id]

\* Rows of the chunk table as hybrid_search_chunks returns them.  A field of
\* <<>> is a key the row does not carry (the tools read them with .get()).
ChunkStore == <<
    [document_id |-> <<"d", "1">>, chunk_id |-> <<"c", "1">>, id |-> <<>>,
     content |-> <<"a", "b", " ", "c">>, chunk_text |-> <<>>,
     filename |-> "A.pdf", page |-> "3", section_path |-> <<<<"7", ".", "2", " ", "T">>>>],
    [document_id |-> <<"d", "1">>, chunk_id |-> <<>>, id |-> <<>>,
     content |-> <<"c", "d">>, chunk_text |-> <<>>,
     filename |-> "A.pdf", page |-> "", section_path |-> <<>>],
    [document_id |-> <<"d", "2">>, chunk_id |-> <<"c", "3">>, id |-> <<>>,
     content |-> <<" ">>, chunk_text |-> <<>>,
     filename |-> "B.pdf", page |-> "1", section_path |-> <<>>],
    [document_id |-> <<"d", "2">>, chunk_id |-> <<"c", "4">>, id |-> <<>>,
     content |-> <<"e", "f", "g">>, chunk_text |-> <<>>,
     filename |-> "B.pdf", page |-> "", section_path |-> <<<<"A", " ", "b", " ", "c", " ", "d">>>>] >>

\* The same rows as the legacy match_document_chunks returns them
\* (old schema: id and chunk_text, no citation metadata).
LegacyRow(c, n) ==
    [document_id |-> c.document_id, chunk_id |-> <<>>, id |-> <<"k", Digit[n + 1]>>,
     content |-> <<>>, chunk_text |-> c.content,
     filename |-> c.filename, page |-> "", section_path |-> <<>>]

\* Sequences without repetition over 1..n, of length at most k.
RECURSIVE Arrangements(_, _)
Arrangements(S, k) ==
    IF k = 0 THEN {<<>>}
    ELSE LET shorter == Arrangements(S, k - 1)
         IN  shorter \cup {Append(q, x) : q \in {r \in shorter : Len(r) = k - 1},
                                          x \in S}

Distinct(q) == \A i, j \in 1..Len(q) : i # j => q[i] # q[j]

ChunkIndexesOf(matter_uuid, document_uuids) ==
    {i \in 1..Len(ChunkStore) :
        /\ DocById(ChunkStore[i].document_id).matter_id = matter_uuid
        /\ (document_uuids # {} => ChunkStore[i].document_id \in document_uuids)}

\* Bodies a 200 answer of hybrid_search_chunks can carry.
HybridResponses(matter_uuid, document_uuids) ==
    {[i \in 1..Len(q) |-> ChunkStore[q[i]]] :
        q \in {r \in Arrangements(ChunkIndexesOf(matter_uuid, document_uuids),
                                  MaxCandidates) : Distinct(r)}}

\* Bodies a 200 answer of match_document_chunks can carry.
LegacyResponses(matter_uuid) ==
    {[i \in 1..Len(q) |-> LegacyRow(ChunkStore[q[i]], q[i])] :
        q \in {r \in Arrangements(ChunkIndexesOf(matter_uuid, {}),
                                  MaxCandidates) : Distinct(r)}}

\* GET /rest/v1/documents?matter_id=eq.<m>&order=uploaded_at.desc
DocsOfMatter(matter_id) ==
    SelectSeq(DocStore, LAMBDA d : d.matter_id = matter_id)

HttpStatuses == {200, 500}

\* Outcome of one HTTP request: a status, or no response at all (httpx raises).
TransportError == 0

HttpOutcomes == {TransportError} \cup HttpStatuses

\* JSON body of a search RPC: the fields both search functions take.
\* query_embedding is the string built from embeddings[0]; thresholds are
\* in tenths.
RpcRequest(fn, matter_uuid, match_threshold, match_count) ==
    [fn |-> fn, query_embedding |-> "embedding_str", matter_uuid |-> matter_uuid,
     match_threshold |-> match_threshold, match_count |-> match_count]

\* --------------------------------------------------------------- state
VARIABLES
    tool,          \* tool being invoked ("none" before the first call)
    args,          \* its arguments
    env,           \* credentials in the environment, event loop running or not
    pc,            \* position of the invocation
    calls,         \* external calls issued so far, in order
    result,        \* dict returned to the caller (fields = keys it carries)
    raised,        \* an exception propagated out of the tool function
    candidates,    \* rows returned by the search (chunks / candidates)
    valid_chunks,  \* chunks whose text goes to the extractor
    extraction,    \* legal_answer: what the extract call produced
    documents,     \* rows fetched from the documents table
    doc_index,     \* next document of the classification loop
    all_matches,   \* matches / document results collected so far
    classified,    \* ids of documents sent to classify_iql
    selected,      \* legal_classify: document ids kept by the pre-filter
    hybrid_status, \* answer of the hybrid_search_chunks request, if one was made
    requests,      \* bodies of the search RPCs posted so far, in order
    rerank_outcome, \* what the reranking stage got from client.rerank
    failed,        \* Isaacus calls that raised during the invocation
    attempt,       \* DeepSeekOCR._make_request: index of the retry loop
    last_error,    \* DeepSeekOCR._make_request: last exception caught
    sleeps,        \* delays passed to asyncio.sleep, in order
    responses,     \* answers received from the OCR service, in order
    pages_text,    \* _extract_pdf_pymupdf: text kept for each page
    ocr_needed_pages \* _extract_pdf_pymupdf: page numbers marked for OCR

vars == <<tool, args, env, pc, calls, result, raised, candidates, valid_chunks,
          extraction, documents, doc_index, all_matches, classified, selected,
          hybrid_status, requests, rerank_outcome, failed, attempt, last_error,
          sleeps, responses, pages_text, ocr_needed_pages>>

\* state of the document services, which no tool function touches
services == <<attempt, last_error, sleeps, responses, pages_text, ocr_needed_pages>>

\* hybrid_status before the request is made
NotRequested == -1

NoResult == [fields |-> {}]

NoResponse ==
    [answer |-> <<>>, score |-> <<>>, text_index |-> <<>>, start |-> <<>>, end |-> <<>>]

NoExtraction == [outcome |-> "not_called", texts |-> <<>>, response |-> NoResponse]

Envs ==
    {e \in [isaacus_key : BOOLEAN, supabase_url : BOOLEAN,
            service_role_key : BOOLEAN, anon_key : BOOLEAN,
            loop_running : BOOLEAN] :
        e.service_role_key => e.anon_key}

SupabaseKey(e) == e.service_role_key \/ e.anon_key

Init ==
    /\ tool = "none"
    /\ args = [matter_id |-> "m1"]
    /\ env \in Envs
    /\ pc = "idle"
    /\ failed = {}
    /\ rerank_outcome = "not_called"
    /\ requests = <<>>
    /\ calls = <<>>
    /\ result = NoResult
    /\ raised = FALSE
    /\ candidates = <<>>
    /\ valid_chunks = <<>>
    /\ extraction = NoExtraction
    /\ documents = <<>>
    /\ doc_index = 1
    /\ all_matches = <<>>
    /\ classified = <<>>
    /\ selected = {}
    /\ hybrid_status = NotRequested
    /\ attempt = 0
    /\ last_error = <<>>
    /\ sleeps = <<>>
    /\ responses = <<>>
    /\ pages_text = <<>>
    /\ ocr_needed_pages = <<>>

\* Start of an invocation.  Invocations share no state, so a behaviour
\* follows one invocation from the call to its return.
Begin(t, a) ==
    /\ pc = "idle"
    /\ failed' = {}
    /\ rerank_outcome' = "not_called"
    /\ requests' = <<>>
    /\ tool' = t
    /\ args' = a
    /\ env' = env
    /\ candidates' = <<>>
    /\ valid_chunks' = <<>>
    /\ extraction' = NoExtraction
    /\ documents' = <<>>
    /\ doc_index' = 1
    /\ all_matches' = <<>>
    /\ classified' = <<>>
    /\ selected' = {}
    /\ hybrid_status' = NotRequested

\* return r
Return(r) ==
    /\ pc' = "done"
    /\ result' = r
    /\ raised' = FALSE
    /\ UNCHANGED services

\* an exception leaves the tool function
Raise ==
    /\ pc' = "done"
    /\ result' = NoResult
    /\ raised' = TRUE
    /\ UNCHANGED services

Continue(next) ==
    /\ pc' = next
    /\ result' = NoResult
    /\ raised' = FALSE
    /\ UNCHANGED services

\* c is the call log including the call just made
Reply(c, r) == calls' = c /\ Return(r)

\* return r from inside try ... finally: await client.close()
ReplyClosed(c, r) == calls' = Append(c, "close") /\ Return(r)

Proceed(c, next) == calls' = c /\ Continue(next)

\* ------------------------------------------------- synchronous wrappers
\* Every tool function: get_running_loop() succeeds when a loop is running,
\* and run_until_complete() on a running loop raises RuntimeError; otherwise
\* the coroutine runs, first checking the credentials it needs.
NeedsIsaacus(t) ==
    t \in {"legal_answer", "legal_classify", "isaacus_search", "isaacus_extract"}

CredentialsMissing(t, e) ==
    \/ NeedsIsaacus(t) /\ ~e.isaacus_key
    \/ ~e.supabase_url
    \/ ~SupabaseKey(e)

\* isaacus_extract: every return that is not an answer
ExtractNotFound(message) ==
    [fields |-> {"answer", "confidence", "citations", "question", "found"},
     answer |-> <<message>>, confidence |-> 0, citations |-> <<>>, found |-> FALSE]

\* isaacus_iql: the returns before the loop
IqlError ==
    [fields |-> {"error", "query", "document_results", "total_matches",
                 "average_score"},
     document_results |-> <<>>, total_matches |-> 0, average_score |-> 0]

CredentialError(t) ==
    CASE t = "legal_answer" ->
            [fields |-> {"answer", "confidence", "citation", "found", "error"},
             answer |-> <<"Configuration error: Missing API credentials">>,
             confidence |-> 0, citation |-> <<>>, found |-> FALSE]
      [] t = "legal_classify" ->
            [fields |-> {"clause_type", "matches", "total_found",
                         "searched_documents", "error"},
             matches |-> <<>>, total_found |-> 0, searched_documents |-> 0,
             matches_by_document |-> <<>>]
      [] t = "isaacus_search" ->
            [fields |-> {"results", "total_found", "query", "matter_id",
                         "reranked", "error"},
             results |-> <<>>, total_found |-> 0, reranked |-> FALSE, hint |-> ""]
      [] t = "list_matter_documents" ->
            [fields |-> {"documents", "total_count", "matter_id", "error"},
             documents |-> <<>>, total_count |-> 0]
      [] t = "get_document_text" ->
            [fields |-> {"error", "text", "filename", "document_id", "file_type",
                         "character_count", "truncated"},
             text |-> <<>>, document_id |-> <<>>, character_count |-> 0,
             truncated |-> FALSE]
      [] t = "isaacus_extract" ->
            ExtractNotFound(IF ~env.isaacus_key
                            THEN "Unable to process: ISAACUS_API_KEY not configured"
                            ELSE "Unable to process: Supabase not configured")
      [] t = "isaacus_iql" -> IqlError

FirstStep(t) ==
    CASE t = "legal_answer" -> "la_embed"
      [] t = "legal_classify" -> "lc_resolve"
      [] t = "isaacus_search" -> "is_embed"
      [] t = "list_matter_documents" -> "ld_fetch"
      [] t = "get_document_text" -> "gt_fetch"
      [] t = "isaacus_extract" -> "ie_embed"
      [] t = "isaacus_iql" -> "iq_fetch"

Call(t, a) ==
    /\ Begin(t, a)
    /\ IF env.loop_running THEN calls' = <<>> /\ Raise
       ELSE IF CredentialsMissing(t, env) THEN Reply(<<>>, CredentialError(t))
       ELSE Proceed(IF NeedsIsaacus(t) THEN <<"IsaacusClient">> ELSE <<>>,
                    FirstStep(t))

\* ------------------------------------------------ list_matter_documents
Call_list_matter_documents ==
    \E m \in Matters : Call("list_matter_documents", [matter_id |-> m])

ListError ==
    [fields |-> {"documents", "total_count", "matter_id", "error"},
     documents |-> <<>>, total_count |-> 0]

ListDocuments_Fetch ==
    /\ pc = "ld_fetch"
    /\ UNCHANGED failed
    /\ UNCHANGED rerank_outcome
    /\ UNCHANGED requests
    /\ UNCHANGED <<tool, args, env, candidates, valid_chunks, extraction,
                   documents, doc_index, all_matches, classified, selected,
                   hybrid_status>>
    /\ \E out \in HttpOutcomes :
         LET rows == DocsOfMatter(args.matter_id)
             c == Append(calls, "GET documents")
         IN
         IF out = TransportError THEN Reply(c, ListError)
         ELSE IF out # 200 THEN Reply(c, ListError)
         ELSE IF rows = <<>> THEN
            Reply(c,
                  [fields |-> {"documents", "total_count", "matter_id", "message"}
                               \cup (IF env.service_role_key THEN {} ELSE {"debug"}),
                    documents |-> <<>>, total_count |-> 0])
         ELSE
            Reply(c,
                  [fields |-> {"documents", "total_count", "matter_id", "summary"},
                    documents |-> [i \in 1..Len(rows) |-> rows[i].id],
                    total_count |-> Len(rows)])

\* ---------------------------------------------------- get_document_text
Call_get_document_text ==
    \E a \in [matter_id : Matters,
              document_id : {<<>>, <<"d", "1">>, <<"d", "4">>},
              filename : {"", "B.pdf"}, max_length : {2, 50000}] :
        Call("get_document_text", a)

GetTextError ==
    [fields |-> {"error", "text", "filename", "document_id", "file_type",
                 "character_count", "truncated"},
     text |-> <<>>, document_id |-> <<>>, character_count |-> 0,
     truncated |-> FALSE]

\* rows matching matter_id, processing_status=eq.ready and the id / filename filter
GetTextRows(a) ==
    {i \in 1..Len(DocStore) :
        /\ DocStore[i].matter_id = a.matter_id
        /\ DocStore[i].processing_status = "ready"
        /\ (a.document_id # <<>> => DocStore[i].id = a.document_id)
        /\ (a.document_id = <<>> /\ a.filename # "" =>
                DocStore[i].filename = a.filename)}

GetDocumentText_Fetch ==
    /\ pc = "gt_fetch"
    /\ UNCHANGED failed
    /\ UNCHANGED rerank_outcome
    /\ UNCHANGED requests
    /\ UNCHANGED <<tool, args, env, candidates, valid_chunks, extraction,
                   documents, doc_index, all_matches, classified, selected,
                   hybrid_status>>
    /\ \E out \in HttpOutcomes :
         LET c == Append(calls, "GET documents") IN
         IF out = TransportError THEN calls' = c /\ Raise
         ELSE IF out # 200 THEN Reply(c, GetTextError)
         ELSE IF GetTextRows(args) = {} THEN
            Reply(c, [GetTextError EXCEPT !.fields = @ \cup {"hint"}])
         ELSE \E i \in GetTextRows(args) :
            LET doc == DocStore[i]
                extracted_text == doc.extracted_text
            IN  IF IsBlank(extracted_text)
                THEN Reply(c, [GetTextError EXCEPT !.document_id = doc.id])
                ELSE Reply(c,
                    [fields |-> {"text", "filename", "document_id", "file_type",
                                 "character_count", "truncated"},
                     text |-> IF Len(extracted_text) > args.max_length
                              THEN Take(extracted_text, args.max_length)
                                       \o <<"[... text truncated ...]">>
                              ELSE extracted_text,
                     document_id |-> doc.id,
                     character_count |-> Len(doc.extracted_text),
                     truncated |-> Len(extracted_text) > args.max_length])

\* ------------------------------------------------------- IsaacusClient
\* IsaacusClient.rerank: the SDK's items become {index, score, text} dicts;
\* an item without a text attribute takes documents[item.index], which
\* raises IndexError when the index is outside the submitted documents.
RerankItems == [index : 0..MaxCandidates, score : {3, 8}]

RECURSIVE SeqsUpTo(_, _)
SeqsUpTo(S, k) ==
    IF k = 0 THEN {<<>>}
    ELSE LET shorter == SeqsUpTo(S, k - 1)
         IN  shorter \cup {Append(q, x) : q \in {r \in shorter : Len(r) = k - 1},
                                          x \in S}

SdkRerankResponses == SeqsUpTo(RerankItems, MaxRerank)

\* raised: the call raised (the SDK did, or the conversion did)
ClientRerank(n_documents, sdk_raises, sdk_items, items_have_text) ==
    IF sdk_raises THEN [raised |-> TRUE, items |-> <<>>]
    ELSE IF /\ ~items_have_text
            /\ \E i \in 1..Len(sdk_items) : sdk_items[i].index >= n_documents
         THEN [raised |-> TRUE, items |-> <<>>]
         ELSE [raised |-> FALSE, items |-> sdk_items]

\* what the caller of client.rerank got: an exception, an empty list, a list
\* naming an index outside the n documents, or a list of valid items
RerankOutcome(n_documents, reranked) ==
    IF reranked.raised THEN "exception"
    ELSE IF reranked.items = <<>> THEN "empty"
    ELSE IF \E i \in 1..Len(reranked.items) : reranked.items[i].index >= n_documents
    THEN "bad_index"
    ELSE "items"

\* IsaacusClient.extract(self, question, context, model) against the
\* keyword arguments of legal_answer's call
\*   client.extract(query=, texts=, model=, top_k=, ignore_inextractability=)
\* Python binds the call iff every keyword names a parameter and every
\* required parameter is given; otherwise the call raises TypeError.
AnswerExtractBinds ==
    LET parameters == {"question", "context", "model"}
        required == {"question", "context"}
        keywords == {"query", "texts", "model", "top_k", "ignore_inextractability"}
    IN  keywords \subseteq parameters /\ required \subseteq keywords

\* What an extractor that accepts (query, texts) can answer: nothing, or a
\* dict with an answer and optional score / text_index / start / end
\* (<<>> = key omitted, <<v>> = key present).
Option(S) == {<<>>} \cup {<<v>> : v \in S}

Spans ==
    {<<<<>>, <<>>>>} \cup
    {<<<<a>>, <<b>>>> : a \in 0..MaxOffset, b \in 0..MaxOffset}

ExtractAnswers == {<<>>, <<"c">>, <<"e", "f", "g">>}

ExtractResponses ==
    {[answer |-> a, score |-> sc, text_index |-> ti, start |-> sp[1], end |-> sp[2]] :
        a \in ExtractAnswers, sc \in Option({9}), ti \in Option(0..3),
        sp \in {x \in Spans : x[1] = <<>> \/ x[1][1] <= x[2][1]}}

\* dict.get(key, default)
Get(option, default) == IF option = <<>> THEN default ELSE option[1]

\* --------------------------------------------------------- legal_answer
DocIdArgs == {S \in SUBSET DocIds : Cardinality(S) <= MaxDocIdArgs}

\* document_ids = {} stands for None or an empty list (both are falsy)
Call_legal_answer ==
    \E a \in [matter_id : Matters, document_ids : DocIdArgs] :
        Call("legal_answer", a)

AnswerNotFound(message, keys) ==
    [fields |-> {"answer", "confidence", "citation", "found"} \cup keys,
     answer |-> <<message>>, confidence |-> 0, citation |-> <<>>, found |-> FALSE]

\* except Exception as e: (the handler around the whole pipeline)
AnswerError == AnswerNotFound("Error processing question", {"error"})

LA_Locals ==
    <<tool, args, env, documents, doc_index, all_matches, classified, selected>>

\* if response.status_code != 200: return {... "error": f"Search error: ..."}
AnswerSearchFailedNoError == AnswerNotFound("Search failed", {})

AnswerSearchFailed == AnswerNotFound("Search failed", {"error"})

\* STEP 1: embeddings = await client.embed([question], task="retrieval/query")
LA_Embed ==
    /\ pc = "la_embed"
    /\ UNCHANGED rerank_outcome
    /\ UNCHANGED requests
    /\ UNCHANGED <<LA_Locals, candidates, valid_chunks, extraction, hybrid_status>>
    /\ \E out \in {"ok", "empty", "exception"} :
         LET c == Append(calls, "embed") IN
         /\ failed' = IF out = "exception" THEN failed \cup {"embed"} ELSE failed
         /\ CASE out = "exception" -> ReplyClosed(c, AnswerError)
              [] out = "empty" ->
                ReplyClosed(c, AnswerNotFound("Failed to process question", {}))
              [] out = "ok" -> Proceed(c, "la_search")

\* search_params: "match_threshold": 0.3, "match_count": 15
AnswerSearchRequest(a) ==
    RpcRequest("hybrid_search_chunks", a.matter_id, 3, 15)

\* STEP 2: POST rpc/hybrid_search_chunks
LA_Search ==
    /\ pc = "la_search"
    /\ UNCHANGED failed
    /\ UNCHANGED rerank_outcome
    /\ requests' = Append(requests, AnswerSearchRequest(args))
    /\ UNCHANGED <<LA_Locals, valid_chunks, extraction>>
    /\ \E out \in HttpOutcomes :
         LET c == Append(calls, "hybrid_search_chunks") IN
         /\ hybrid_status' = out
         /\ IF out = TransportError
            THEN candidates' = candidates /\ ReplyClosed(c, AnswerError)
            ELSE IF out # 200
            THEN /\ candidates' = candidates
                 /\ ReplyClosed(c, AnswerSearchFailed)
            ELSE \E chunks \in HybridResponses(args.matter_id, args.document_ids) :
                 /\ candidates' = chunks
                 /\ IF chunks = <<>>
                    THEN ReplyClosed(c,
                           AnswerNotFound("No relevant content found in documents", {}))
                    ELSE Proceed(c, "la_rerank")

\* for item in reranked: idx = item.get("index", 0); if idx < len(chunks): ...
RECURSIVE RerankedChunks(_, _)
RerankedChunks(chunks, items) ==
    IF items = <<>> THEN <<>>
    ELSE LET idx == items[1].index
             rest == RerankedChunks(chunks, Tail(items))
         IN  IF idx < Len(chunks) THEN <<chunks[idx + 1]>> \o rest ELSE rest

\* chunks after the reranking stage
AnswerKept(chunks, reranked) ==
    IF reranked.raised THEN Take(chunks, 5)
    ELSE LET reranked_chunks == RerankedChunks(chunks, reranked.items)
         IN  IF reranked_chunks # <<>> THEN reranked_chunks ELSE Take(chunks, 5)

\* STEP 3: reranked = await client.rerank(query, documents, top_k=5)
LA_Rerank ==
    /\ pc = "la_rerank"
    /\ UNCHANGED requests
    /\ UNCHANGED <<LA_Locals, valid_chunks, extraction, hybrid_status>>
    /\ \E sdk_raises \in BOOLEAN :
       \E sdk_items \in (IF sdk_raises THEN {<<>>} ELSE SdkRerankResponses),
          items_have_text \in (IF sdk_raises THEN {FALSE} ELSE BOOLEAN) :
         LET reranked == ClientRerank(Len(candidates), sdk_raises, sdk_items,
                                     items_have_text)
         IN  /\ candidates' = AnswerKept(candidates, reranked)
             /\ failed' = IF reranked.raised THEN failed \cup {"rerank"} ELSE failed
             /\ rerank_outcome' = RerankOutcome(Len(candidates), reranked)
             /\ Proceed(Append(calls, "rerank"), "la_extract")

\* valid_chunks: the non-blank chunks among chunks[:3], in order
\* (chunk_texts is their content, index by index)
ValidChunks(chunks) == SelectSeq(Take(chunks, 3), LAMBDA ch : ~IsBlank(ch.content))

ChunkTexts(chunks) ==
    LET valid == SelectSeq(Take(chunks, 3), LAMBDA ch : ~IsBlank(ch.content))
    IN  [i \in 1..Len(valid) |-> valid[i].content]

\* best_chunk for a response carrying an answer
BestChunkFirst(valid, response) == valid[1]

BestChunk(valid, response) ==
    LET text_index == Get(response.text_index, 0)
    IN  IF text_index < Len(valid) THEN valid[text_index + 1] ELSE valid[1]

\* best_positions = {"start": result.get("start", 0),
\*                   "end": result.get("end", len(result["answer"]))}
BestPositions(best_chunk, response) ==
    [start |-> Get(response.start, 0),
     end |-> Get(response.end, Len(response.answer))]

\* formatted_parts: filename, then "p.<page>", then "§ <last section[:20]>"
AnswerFormattedParts(best_chunk) ==
    <<<<"", <<best_chunk.filename>>>>>>
    \o (IF best_chunk.page # "" THEN <<<<"p.", <<best_chunk.page>>>>>> ELSE <<>>)
    \o (IF best_chunk.section_path # <<>>
        THEN <<<<"§ ", Take(best_chunk.section_path[Len(best_chunk.section_path)], 20)>>>>
        ELSE <<>>)

\* STEP 5: the found=true result
AnswerFound(best_chunk, response) ==
    LET document_id == best_chunk.document_id
        chunk_id == best_chunk.chunk_id
        positions == BestPositions(best_chunk, response)
        permalink == AnswerPermalink(document_id, chunk_id,
                                     positions.start, positions.end)
    IN  [fields |-> {"answer", "confidence", "citation", "found", "question",
                     "_usage_hint"},
         answer |-> response.answer,
         confidence |-> Get(response.score, 5),
         citation |-> <<[formatted |-> AnswerFormattedParts(best_chunk),
                         permalink |-> permalink,
                         markdown |-> <<AnswerFormattedParts(best_chunk), permalink>>,
                         document_id |-> document_id,
                         chunk_id |-> chunk_id,
                         start |-> positions.start,
                         end |-> positions.end]>>,
         found |-> TRUE]

\* if result and result.get("answer"):
HasAnswerLoose(outcome, response) == outcome = "response"

HasAnswer(outcome, response) == outcome = "response" /\ response.answer # <<>>

CouldNotExtract ==
    AnswerNotFound("Could not extract a specific answer from the documents", {})

\* STEP 4 and 5: filter blank chunks, call client.extract, build the citation.
\* binds: the extract call is accepted by the callee; when it is not, the
\* TypeError is caught by the except around the call (best_answer stays None).
LA_ExtractStep(binds) ==
    /\ pc = "la_extract"
    /\ UNCHANGED rerank_outcome
    /\ UNCHANGED requests
    /\ UNCHANGED <<LA_Locals, candidates, hybrid_status>>
    /\ LET valid == ValidChunks(candidates)
           chunk_texts == ChunkTexts(candidates)
           c == Append(calls, "extract")
       IN
       /\ valid_chunks' = valid
       /\ IF chunk_texts = <<>>
          THEN /\ extraction' = NoExtraction
               /\ failed' = failed
               /\ ReplyClosed(calls,
                    AnswerNotFound("No readable content found in relevant documents", {}))
          ELSE IF ~binds
          THEN /\ extraction' = [outcome |-> "TypeError", texts |-> chunk_texts,
                                 response |-> NoResponse]
               /\ failed' = failed \cup {"extract"}
               /\ ReplyClosed(c, CouldNotExtract)
          ELSE \E outcome \in {"exception", "none", "response"} :
               \E response \in IF outcome = "response" THEN ExtractResponses
                               ELSE {NoResponse} :
                  /\ extraction' = [outcome |-> outcome, texts |-> chunk_texts,
                                    response |-> response]
                  /\ failed' = IF outcome = "exception" THEN failed \cup {"extract"}
                               ELSE failed
                  /\ IF HasAnswer(outcome, response)
                     THEN ReplyClosed(c,
                            AnswerFound(BestChunk(valid, response), response))
                     ELSE ReplyClosed(c, CouldNotExtract)

\* legal_answer as shipped: the call goes to IsaacusClient.extract
LA_Extract == LA_ExtractStep(AnswerExtractBinds)

\* legal_answer over an extractor that accepts the (query, texts) call
LA_ExtractAccepted == LA_ExtractStep(TRUE)

\* ------------------------------------------------------- isaacus_search
\* threshold: float = 0.3 (tenths)
Call_isaacus_search ==
    \E a \in [matter_id : Matters, max_results : {1, 2}, threshold : {3}] :
        Call("isaacus_search", a)

SearchEmpty(keys, hint) ==
    [fields |-> {"results", "total_found", "query", "matter_id", "reranked"}
                \cup keys,
     results |-> <<>>, total_found |-> 0, reranked |-> FALSE, hint |-> hint]

\* except Exception as e: (the handler around the whole pipeline)
SearchError == SearchEmpty({"error"}, "")

\* candidate_count = min(max_results * 3, 20)
CandidateCount(max_results) == Min(max_results * 3, 20)

\* c.get("content") or c.get("chunk_text") or ""
GetChunkText(c) == IF c.content # <<>> THEN c.content ELSE c.chunk_text

IsDigitChar(ch) == \E d \in 1..10 : Digit[d] = ch

\* length of re.match(r"^(\d+\.?)+", s): digits, each run optionally
\* followed by one dot
RECURSIVE SectionNumberLen(_, _)
SectionNumberLen(s, i) ==
    IF i > Len(s) THEN i - 1
    ELSE IF IsDigitChar(s[i]) THEN SectionNumberLen(s, i + 1)
    ELSE IF s[i] = "." /\ i > 1 /\ IsDigitChar(s[i - 1]) THEN SectionNumberLen(s, i + 1)
    ELSE i - 1

\* s.split(): maximal runs of non-whitespace characters
RECURSIVE SplitWords(_)
SplitWords(s) ==
    IF s = <<>> THEN <<>>
    ELSE IF s[1] \in Whitespace THEN SplitWords(Tail(s))
    ELSE LET stop == IF \E i \in 1..Len(s) : s[i] \in Whitespace
                     THEN (CHOOSE i \in 1..Len(s) :
                             s[i] \in Whitespace
                             /\ \A j \in 1..(i - 1) : s[j] \notin Whitespace) - 1
                     ELSE Len(s)
         IN  <<SubSeq(s, 1, stop)>> \o SplitWords(SubSeq(s, stop + 1, Len(s)))

\* " ".join(words)
RECURSIVE JoinWords(_)
JoinWords(words) ==
    IF words = <<>> THEN <<>>
    ELSE IF Len(words) = 1 THEN words[1]
    ELSE words[1] \o <<" ">> \o JoinWords(Tail(words))

\* citation_parts of _format_search_result
SearchFormattedParts(candidate) ==
    LET section_path == candidate.section_path
        last_section == section_path[Len(section_path)]
        n == SectionNumberLen(last_section, 1)
    IN  <<<<"", <<candidate.filename>>>>>>
        \o (IF candidate.page # "" THEN <<<<"p.", <<candidate.page>>>>>> ELSE <<>>)
        \o (IF section_path = <<>> THEN <<>>
            ELSE IF n > 0 THEN <<<<"§ ", SubSeq(last_section, 1, n)>>>>
            ELSE IF last_section # <<>>
                 THEN <<<<"", JoinWords(Take(SplitWords(last_section), 3))>>>>
                 ELSE <<>>)

\* _format_search_result(candidate, rerank_score); rerank_score <<>> is None
FormatSearchResult(candidate, rerank_score) ==
    LET chunk_id == IF candidate.chunk_id # <<>> THEN candidate.chunk_id
                    ELSE candidate.id
        permalink == SearchPermalink(candidate.document_id, chunk_id)
    IN  [document_id |-> candidate.document_id,
         chunk_id |-> chunk_id,
         filename |-> candidate.filename,
         chunk_text |-> GetChunkText(candidate),
         rerank_score |-> rerank_score,
         citation |-> [page |-> candidate.page,
                       section_path |-> candidate.section_path,
                       formatted |-> SearchFormattedParts(candidate),
                       permalink |-> permalink,
                       markdown |-> <<SearchFormattedParts(candidate), permalink>>]]

SearchLocals == <<tool, args, env, valid_chunks, extraction, documents, doc_index,
                  all_matches, classified, selected>>

\* Step 1: embeddings = await client.embed([query], task="retrieval/query")
IS_Embed ==
    /\ pc = "is_embed"
    /\ UNCHANGED rerank_outcome
    /\ UNCHANGED requests
    /\ UNCHANGED <<SearchLocals, candidates, hybrid_status>>
    /\ \E out \in {"ok", "empty", "exception"} :
         LET c == Append(calls, "embed") IN
         /\ failed' = IF out = "exception" THEN failed \cup {"embed"} ELSE failed
         /\ CASE out = "exception" -> ReplyClosed(c, SearchError)
              [] out = "empty" -> ReplyClosed(c, SearchError)
              [] out = "ok" -> Proceed(c, "is_hybrid")

\* results = [_format_search_result(row, None) for row in candidates[:max_results]]
SearchFallback(rows, max_results) ==
    LET kept == Take(rows, max_results)
    IN  [i \in 1..Len(kept) |-> FormatSearchResult(kept[i], <<>>)]

SearchReturn(results, reranked) ==
    [fields |-> {"results", "total_found", "query", "matter_id", "reranked",
                 "_citation_hint"},
     results |-> results, total_found |-> Len(results), reranked |-> reranked,
     hint |-> ""]

\* after candidates = response.json(): no rows, one row, or on to the reranker
SearchAfterRows(c, rows) ==
    /\ candidates' = rows
    /\ IF rows = <<>> THEN Proceed(c, "is_no_results")
       ELSE IF Len(rows) > 1 THEN Proceed(c, "is_rerank")
       ELSE ReplyClosed(c, SearchReturn(<<FormatSearchResult(rows[1], <<>>)>>, FALSE))

\* json of the hybrid request: match_threshold = threshold,
\* match_count = candidate_count
SearchHybridRequest(a) ==
    RpcRequest("hybrid_search_chunks", a.matter_id, a.threshold,
               CandidateCount(a.max_results))

\* json of the legacy request
SearchLegacyRequestUnscaled(a) ==
    RpcRequest("match_document_chunks", a.matter_id, a.threshold, a.max_results)

SearchLegacyRequest(a) ==
    RpcRequest("match_document_chunks", a.matter_id, a.threshold,
               CandidateCount(a.max_results))

\* Step 2: POST rpc/hybrid_search_chunks
IS_Hybrid ==
    /\ pc = "is_hybrid"
    /\ UNCHANGED failed
    /\ UNCHANGED rerank_outcome
    /\ requests' = Append(requests, SearchHybridRequest(args))
    /\ UNCHANGED SearchLocals
    /\ \E out \in HttpOutcomes :
         LET c == Append(calls, "hybrid_search_chunks") IN
         /\ hybrid_status' = out
         /\ IF out = TransportError
            THEN candidates' = candidates /\ ReplyClosed(c, SearchError)
            ELSE IF out # 200
            THEN candidates' = candidates /\ Proceed(c, "is_legacy")
            ELSE \E rows \in HybridResponses(args.matter_id, {}) :
                   SearchAfterRows(c, rows)

\* fallback: POST rpc/match_document_chunks
IS_Legacy ==
    /\ pc = "is_legacy"
    /\ UNCHANGED failed
    /\ UNCHANGED rerank_outcome
    /\ requests' = Append(requests, SearchLegacyRequest(args))
    /\ UNCHANGED <<SearchLocals, hybrid_status>>
    /\ \E out \in HttpOutcomes :
         LET c == Append(calls, "match_document_chunks") IN
         IF out = TransportError
         THEN candidates' = candidates /\ ReplyClosed(c, SearchError)
         ELSE IF out # 200
         THEN candidates' = candidates /\ ReplyClosed(c, SearchError)
         ELSE \E rows \in LegacyResponses(args.matter_id) :
                SearchAfterRows(c, rows)

\* Step 3, len(candidates) > 1: rerank, map the scores back, or fall back
SearchReranked(rows, reranked, max_results) ==
    IF reranked.raised
       \/ \E i \in 1..Len(reranked.items) : reranked.items[i].index >= Len(rows)
    THEN SearchReturn(SearchFallback(rows, max_results), FALSE)
    ELSE IF reranked.items = <<>>
    THEN SearchReturn(SearchFallback(rows, max_results), TRUE)
    ELSE SearchReturn(
            [i \in 1..Len(reranked.items) |->
                FormatSearchResult(rows[reranked.items[i].index + 1],
                                   <<reranked.items[i].score>>)],
            TRUE)

IS_Rerank ==
    /\ pc = "is_rerank"
    /\ UNCHANGED requests
    /\ UNCHANGED <<SearchLocals, candidates, hybrid_status>>
    /\ \E sdk_raises \in BOOLEAN :
       \E sdk_items \in (IF sdk_raises THEN {<<>>} ELSE SdkRerankResponses),
          items_have_text \in (IF sdk_raises THEN {FALSE} ELSE BOOLEAN) :
         LET reranked == ClientRerank(Len(candidates), sdk_raises, sdk_items,
                                     items_have_text)
         IN  /\ rerank_outcome' = RerankOutcome(Len(candidates), reranked)
             /\ failed' = IF reranked.raised THEN failed \cup {"rerank"} ELSE failed
             /\ ReplyClosed(Append(calls, "rerank"),
                    SearchReranked(candidates, reranked, args.max_results))

\* get_matter_documents_list: the rows of the matter, [] on any failure
MatterDocumentsList(out, matter_id) ==
    IF out = 200 THEN DocsOfMatter(matter_id) ELSE <<>>

\* _handle_no_results
HandleNoResults(available_docs) ==
    LET ready_docs == SelectSeq(available_docs,
                        LAMBDA d : d.processing_status = "ready")
        processing_docs == SelectSeq(available_docs,
                        LAMBDA d : d.processing_status
                                     \in {"pending", "extracting", "embedding"})
    IN  IF available_docs # <<>>
        THEN SearchEmpty({"available_documents", "processing_documents", "hint"},
                         IF ready_docs # <<>> THEN "no content matched"
                         ELSE "still being processed")
        ELSE SearchEmpty({"available_documents", "hint"},
                         "no documents have been uploaded")

IS_NoResults ==
    /\ pc = "is_no_results"
    /\ UNCHANGED failed
    /\ UNCHANGED rerank_outcome
    /\ UNCHANGED requests
    /\ UNCHANGED <<SearchLocals, candidates, hybrid_status>>
    /\ \E out \in HttpOutcomes :
         ReplyClosed(Append(calls, "GET documents"),
                     HandleNoResults(MatterDocumentsList(out, args.matter_id)))

\* ------------------------------------------------------- legal_classify
Call_legal_classify ==
    \E a \in [matter_id : Matters, document_ids : DocIdArgs] :
        Call("legal_classify", a)

ClassifyEmpty(keys) ==
    [fields |-> {"clause_type", "matches", "total_found", "searched_documents"}
                \cup keys,
     matches |-> <<>>, total_found |-> 0, searched_documents |-> 0,
     matches_by_document |-> <<>>]

\* except Exception as e: (the handler around the whole pipeline)
ClassifyError == ClassifyEmpty({"error"})

\* doc_ids[:5]
PrefilterCap == 5

\* s[a:b]
Slice(s, a, b) == SubSeq(s, a + 1, Min(b, Len(s)))

\* all_matches.sort(key=score, reverse=True): stable, equal scores keep
\* their order
RECURSIVE InsertByScore(_, _)
InsertByScore(sorted, m) ==
    IF sorted = <<>> THEN <<m>>
    ELSE IF sorted[1].score >= m.score
         THEN <<sorted[1]>> \o InsertByScore(Tail(sorted), m)
         ELSE <<m>> \o sorted

RECURSIVE SortByScore(_)
SortByScore(ms) ==
    IF ms = <<>> THEN <<>>
    ELSE InsertByScore(SortByScore(SubSeq(ms, 1, Len(ms) - 1)), ms[Len(ms)])

\* Spans the universal classifier reports for one text.
IqlChunks == {[start |-> 0, end |-> 2, score |-> 4],
              [start |-> 0, end |-> 2, score |-> 9],
              [start |-> 3, end |-> MaxOffset, score |-> 9]}

SdkIqlResponses == SeqsUpTo(IqlChunks, MaxMatches)

\* IsaacusClient.classify_iql: chunks become matches, sorted by score
ClientClassifyIql(text, sdk_chunks) ==
    SortByScore([i \in 1..Len(sdk_chunks) |->
        [text |-> Slice(text, sdk_chunks[i].start, sdk_chunks[i].end),
         start_index |-> sdk_chunks[i].start,
         end_index |-> sdk_chunks[i].end,
         score |-> sdk_chunks[i].score]])

\* the entries appended to all_matches for one document
DocumentMatches(doc, matches) ==
    [i \in 1..Len(matches) |->
        LET permalink == ClassifyPermalink(doc.id, matches[i].start_index,
                                           matches[i].end_index)
        IN  [text |-> matches[i].text,
             score |-> matches[i].score,
             citation |-> [formatted |-> doc.filename,
                           permalink |-> permalink,
                           markdown |-> <<doc.filename, permalink>>,
                           document_id |-> doc.id,
                           start |-> matches[i].start_index,
                           end |-> matches[i].end_index]]]

\* matches_by_document[doc_id]["count"] += 1
GroupCountsOnce(ms) ==
    [id \in {ms[i].citation.document_id : i \in 1..Len(ms)} |-> 1]

GroupCounts(ms) ==
    [id \in {ms[i].citation.document_id : i \in 1..Len(ms)} |->
        Cardinality({i \in 1..Len(ms) : ms[i].citation.document_id = id})]

\* sort, group and return
ClassifyReturn(matches, docs) ==
    LET sorted == SortByScore(matches)
    IN  [fields |-> {"clause_type", "matches", "total_found", "searched_documents",
                     "matches_by_document", "_usage_hint", "_instruction"},
         matches |-> sorted,
         total_found |-> Len(sorted),
         searched_documents |-> Len(docs),
         matches_by_document |-> GroupCounts(sorted)]

\* index of the next document at or after i with non-blank text, 0 if none
NextReadable(docs, i) ==
    IF \E j \in i..Len(docs) : ~IsBlank(docs[j].extracted_text)
    THEN CHOOSE j \in i..Len(docs) :
            /\ ~IsBlank(docs[j].extracted_text)
            /\ \A k \in i..(j - 1) : IsBlank(docs[k].extracted_text)
    ELSE 0

\* rows of GET documents?id=in.(ids)&processing_status=eq.ready
RowsByIds(ids, matter_id) ==
    {i \in 1..Len(DocStore) : /\ DocStore[i].id \in ids
                              /\ DocStore[i].processing_status = "ready"}

\* rows of GET documents?matter_id=eq.<m>&processing_status=eq.ready
RowsOfMatterAnyStatus(matter_id) ==
    {i \in 1..Len(DocStore) : DocStore[i].matter_id = matter_id}

RowsOfMatterReady(matter_id) ==
    {i \in 1..Len(DocStore) : /\ DocStore[i].matter_id = matter_id
                              /\ DocStore[i].processing_status = "ready"}

\* the rows in some order (the request names none)
RowOrders(rows) ==
    {q \in Arrangements(rows, Cardinality(rows)) :
        Len(q) = Cardinality(rows) /\ Distinct(q)}

ClassifyLocals == <<tool, args, env, candidates, valid_chunks, extraction>>

\* the answer of a documents request, up to the start of the loop
AfterFetch(c, out, rows) ==
    /\ UNCHANGED <<ClassifyLocals, all_matches, classified, selected, hybrid_status>>
    /\ IF out = TransportError
       THEN documents' = documents /\ doc_index' = doc_index
            /\ ReplyClosed(c, ClassifyError)
       ELSE IF out # 200
       THEN documents' = documents /\ doc_index' = doc_index
            /\ ReplyClosed(c, ClassifyError)
       ELSE \E order \in RowOrders(rows) :
            LET docs == [i \in 1..Len(order) |-> DocStore[order[i]]] IN
            /\ documents' = docs
            /\ doc_index' = NextReadable(docs, 1)
            /\ IF docs = <<>> THEN ReplyClosed(c, ClassifyEmpty({"message"}))
               ELSE IF NextReadable(docs, 1) = 0
               THEN ReplyClosed(c, ClassifyReturn(<<>>, docs))
               ELSE Proceed(c, "lc_classify")

\* STEP 1, document_ids given: fetch exactly those documents
LC_FetchByIds ==
    /\ pc = "lc_resolve"
    /\ UNCHANGED failed
    /\ UNCHANGED rerank_outcome
    /\ UNCHANGED requests
    /\ args.document_ids # {}
    /\ \E out \in HttpOutcomes :
         AfterFetch(Append(calls, "GET documents by id"), out,
                    RowsByIds(args.document_ids, args.matter_id))

\* STEP 1, no document_ids: embed the clause type for the pre-filter
LC_PrefilterEmbed ==
    /\ pc = "lc_resolve"
    /\ UNCHANGED rerank_outcome
    /\ UNCHANGED requests
    /\ args.document_ids = {}
    /\ UNCHANGED <<ClassifyLocals, documents, doc_index, all_matches, classified,
                   selected, hybrid_status>>
    /\ \E out \in {"ok", "empty", "exception"} :
         LET c == Append(calls, "embed") IN
         /\ failed' = IF out = "exception" THEN failed \cup {"embed"} ELSE failed
         /\ CASE out = "exception" -> ReplyClosed(c, ClassifyError)
              [] out = "empty" -> Proceed(c, "lc_fetch_all")
              [] out = "ok" -> Proceed(c, "lc_prefilter_search")

\* doc_ids = list(set(c.get("document_id") for c in chunks ...))[:5]:
\* the order of a set is not fixed, so any PrefilterCap of them
PrefilterSelections(chunks) ==
    LET doc_ids == {chunks[i].document_id : i \in 1..Len(chunks)} \ {<<>>}
    IN  {S \in SUBSET doc_ids :
            Cardinality(S) = Min(PrefilterCap, Cardinality(doc_ids))}

\* json of the pre-filter search: "match_threshold": 0.3, "match_count": 20
PrefilterRequest(a) ==
    RpcRequest("hybrid_search_chunks", a.matter_id, 3, 20)

\* The rows of the response matter to what follows only through doc_ids;
\* they are kept in candidates where a property reads their rank order.
PrefilterSearch(bodies, keep_rows) ==
    /\ pc = "lc_prefilter_search"
    /\ UNCHANGED failed
    /\ UNCHANGED rerank_outcome
    /\ requests' = Append(requests, PrefilterRequest(args))
    /\ UNCHANGED <<tool, args, env, valid_chunks, extraction>>
    /\ UNCHANGED <<documents, doc_index, all_matches, classified>>
    /\ \E out \in HttpOutcomes :
         LET c == Append(calls, "hybrid_search_chunks") IN
         /\ hybrid_status' = out
         /\ IF out = TransportError
            THEN /\ UNCHANGED <<selected, candidates>>
                 /\ ReplyClosed(c, ClassifyError)
            ELSE IF out # 200
            THEN /\ UNCHANGED <<selected, candidates>>
                 /\ Proceed(c, "lc_fetch_all")
            ELSE \E chunks \in bodies :
                 \E S \in PrefilterSelections(chunks) :
                   /\ selected' = S
                   /\ candidates' = IF keep_rows THEN chunks ELSE candidates
                   /\ IF S # {} THEN Proceed(c, "lc_fetch_selected")
                      ELSE Proceed(c, "lc_fetch_all")

LC_PrefilterSearch == PrefilterSearch(HybridResponses(args.matter_id, {}), FALSE)

LC_FetchSelected ==
    /\ pc = "lc_fetch_selected"
    /\ UNCHANGED failed
    /\ UNCHANGED rerank_outcome
    /\ UNCHANGED requests
    /\ \E out \in HttpOutcomes :
         AfterFetch(Append(calls, "GET documents by id"), out,
                    RowsByIds(selected, args.matter_id))

LC_FetchAll ==
    /\ pc = "lc_fetch_all"
    /\ UNCHANGED failed
    /\ UNCHANGED rerank_outcome
    /\ UNCHANGED requests
    /\ \E out \in HttpOutcomes :
         AfterFetch(Append(calls, "GET documents of matter"), out,
                    RowsOfMatterReady(args.matter_id))

\* STEP 2: one iteration of the loop that reaches classify_iql (documents
\* with blank text are skipped without a call), and the return after the
\* last one
LC_Classify ==
    /\ pc = "lc_classify"
    /\ UNCHANGED rerank_outcome
    /\ UNCHANGED requests
    /\ UNCHANGED <<ClassifyLocals, documents, selected, hybrid_status>>
    /\ LET doc == documents[doc_index]
           next == NextReadable(documents, doc_index + 1)
           c == Append(calls, "classify_iql")
       IN
       /\ classified' = Append(classified, doc.id)
       /\ doc_index' = next
       /\ \E sdk_raises \in BOOLEAN :
          \E sdk_chunks \in IF sdk_raises THEN {<<>>} ELSE SdkIqlResponses :
            LET found == all_matches
                         \o DocumentMatches(doc,
                                ClientClassifyIql(doc.extracted_text, sdk_chunks))
            IN  /\ all_matches' = found
                /\ failed' = IF sdk_raises THEN failed \cup {"classify_iql"}
                             ELSE failed
                /\ IF next = 0 THEN ReplyClosed(c, ClassifyReturn(found, documents))
                   ELSE Proceed(c, "lc_classify")

\* ------------------------------------------------------ isaacus_extract
Call_isaacus_extract ==
    \E a \in [matter_id : Matters] : Call("isaacus_extract", a)

ExtractLocals == <<tool, args, env, extraction, documents, doc_index,
                   all_matches, classified, selected>>

\* json of both search requests: "match_threshold": 0.3, "match_count": 10
ExtractSearchRequest(fn, a) ==
    RpcRequest(fn, a.matter_id, 3, 10)

\* Step 1: embeddings = await client.embed([question], task="retrieval/query")
IE_Embed ==
    /\ pc = "ie_embed"
    /\ UNCHANGED <<ExtractLocals, candidates, valid_chunks, hybrid_status,
                   requests, rerank_outcome>>
    /\ \E out \in {"ok", "empty", "exception"} :
         LET c == Append(calls, "embed") IN
         /\ failed' = IF out = "exception" THEN failed \cup {"embed"} ELSE failed
         /\ CASE out = "exception" -> ReplyClosed(c, ExtractNotFound("Error: "))
              [] out = "empty" ->
                    ReplyClosed(c, ExtractNotFound("Not found in the documents"))
              [] out = "ok" -> Proceed(c, "ie_hybrid")

\* chunks = response.json(); if not chunks: return "Not found in the documents"
ExtractAfterRows(c, rows) ==
    /\ candidates' = rows
    /\ IF rows = <<>>
       THEN ReplyClosed(c, ExtractNotFound("Not found in the documents"))
       ELSE Proceed(c, "ie_rerank")

\* Step 2: POST rpc/hybrid_search_chunks
IE_Hybrid ==
    /\ pc = "ie_hybrid"
    /\ UNCHANGED <<ExtractLocals, valid_chunks, failed, rerank_outcome>>
    /\ requests' = Append(requests,
                          ExtractSearchRequest("hybrid_search_chunks", args))
    /\ \E out \in HttpOutcomes :
         LET c == Append(calls, "hybrid_search_chunks") IN
         /\ hybrid_status' = out
         /\ IF out = TransportError
            THEN candidates' = candidates
                 /\ ReplyClosed(c, ExtractNotFound("Error: "))
            ELSE IF out # 200
            THEN candidates' = candidates /\ Proceed(c, "ie_legacy")
            ELSE \E rows \in HybridResponses(args.matter_id, {}) :
                   ExtractAfterRows(c, rows)

\* fallback: POST rpc/match_document_chunks
IE_Legacy ==
    /\ pc = "ie_legacy"
    /\ UNCHANGED <<ExtractLocals, valid_chunks, hybrid_status, failed,
                   rerank_outcome>>
    /\ requests' = Append(requests,
                          ExtractSearchRequest("match_document_chunks", args))
    /\ \E out \in HttpOutcomes :
         LET c == Append(calls, "match_document_chunks") IN
         IF out = TransportError
         THEN candidates' = candidates /\ ReplyClosed(c, ExtractNotFound("Error: "))
         ELSE IF out # 200
         THEN candidates' = candidates
              /\ ReplyClosed(c, ExtractNotFound("Error querying documents"))
         ELSE \E rows \in LegacyResponses(args.matter_id) :
                ExtractAfterRows(c, rows)

\* a chunk as it leaves the reranking stage; rerank_score <<>> = key absent
Unscored(chunks) ==
    [i \in 1..Len(chunks) |-> [chunk |-> chunks[i], rerank_score |-> <<>>]]

\* Step 3 after a successful client.rerank: chunks[r["index"]] with the score;
\* an index outside chunks raises IndexError, and so does the print of
\* reranked_chunks[0] for an empty list: except -> chunks[:5]
ExtractReranked(chunks, reranked) ==
    IF \/ reranked.raised
       \/ reranked.items = <<>>
       \/ \E i \in 1..Len(reranked.items) : reranked.items[i].index >= Len(chunks)
    THEN Unscored(Take(chunks, 5))
    ELSE [i \in 1..Len(reranked.items) |->
            [chunk |-> chunks[reranked.items[i].index + 1],
             rerank_score |-> <<reranked.items[i].score>>]]

\* Step 3 and the first line of Step 4: rerank when len(chunks) > 1, then
\* top_chunks = reranked_chunks[:3].  Nothing reads chunks after this point:
\* only top_chunks is carried on.
IE_Rerank ==
    /\ pc = "ie_rerank"
    /\ UNCHANGED <<ExtractLocals, hybrid_status, requests>>
    /\ candidates' = <<>>
    /\ IF Len(candidates) > 1
       THEN \E sdk_raises \in BOOLEAN :
            \E sdk_items \in (IF sdk_raises THEN {<<>>} ELSE SdkRerankResponses),
               items_have_text \in (IF sdk_raises THEN {FALSE} ELSE BOOLEAN) :
              LET reranked == ClientRerank(Len(candidates), sdk_raises, sdk_items,
                                          items_have_text)
              IN  /\ rerank_outcome' = RerankOutcome(Len(candidates), reranked)
                  /\ failed' = IF reranked.raised THEN failed \cup {"rerank"}
                               ELSE failed
                  /\ valid_chunks' = Take(ExtractReranked(candidates, reranked), 3)
                  /\ Proceed(Append(calls, "rerank"), "ie_extract")
       ELSE /\ UNCHANGED <<rerank_outcome, failed>>
            /\ valid_chunks' = Take(Unscored(candidates), 3)
            /\ Proceed(calls, "ie_extract")

\* str.lower() on the characters the texts are made of
Lower(s) ==
    LET LowerChar(ch) ==
            CASE ch = "A" -> "a" [] ch = "B" -> "b" [] ch = "C" -> "c"
              [] ch = "D" -> "d" [] ch = "E" -> "e" [] ch = "F" -> "f"
              [] ch = "G" -> "g" [] ch = "T" -> "t" [] OTHER -> ch
    IN  [i \in 1..Len(s) |-> LowerChar(s[i])]

\* sub in text
Contains(text, sub) ==
    \E i \in 0..(Len(text) - Len(sub)) : SubSeq(text, i + 1, i + Len(sub)) = sub

\* _format_legal_citation(filename, page, section_path): the parts in brackets
FormatLegalCitation(chunk) == <<"[", SearchFormattedParts(chunk), "]">>

\* one entry of citations
ExtractCitation(top) ==
    LET chunk == top.chunk
        chunk_id == IF chunk.chunk_id # <<>> THEN chunk.chunk_id ELSE chunk.id
    IN  [document_id |-> chunk.document_id,
         chunk_id |-> chunk_id,
         filename |-> chunk.filename,
         text_excerpt |-> Take(GetChunkText(chunk), 500),
         relevance_score |-> top.rerank_score,
         formatted |-> FormatLegalCitation(chunk),
         permalink |-> SearchPermalink(chunk.document_id, chunk_id)]

\* for chunk in top_chunks: citations.append(...); if contains_answer:
\* citations.insert(0, citations.pop())
RECURSIVE ExtractCitations(_, _, _)
ExtractCitations(top_chunks, answer_text, citations) ==
    IF top_chunks = <<>> THEN citations
    ELSE LET citation == ExtractCitation(top_chunks[1])
             contains_answer ==
                 Contains(Lower(GetChunkText(top_chunks[1].chunk)),
                          Lower(answer_text))
         IN  ExtractCitations(Tail(top_chunks), answer_text,
                 IF contains_answer THEN <<citation>> \o citations
                 ELSE Append(citations, citation))

ExtractFound(top_chunks, response) ==
    LET citations == ExtractCitations(top_chunks, response.answer, <<>>)
    IN  [fields |-> {"answer", "confidence", "citations", "question", "found",
                     "primary_citation"},
         answer |-> response.answer,
         confidence |-> response.confidence,
         citations |-> citations,
         found |-> TRUE,
         primary_citation |-> IF citations # <<>> THEN citations[1].formatted
                              ELSE <<>>]

\* Step 5: result = await client.extract(question=question, context=context),
\* which returns the SDK's answer and confidence (1.0 when the response has
\* none, as for the responses drawn here)
IE_Extract ==
    /\ pc = "ie_extract"
    /\ UNCHANGED <<ExtractLocals, candidates, valid_chunks, hybrid_status,
                   requests, rerank_outcome>>
    /\ LET c == Append(calls, "extract") IN
       \E sdk_raises \in BOOLEAN :
         IF sdk_raises
         THEN /\ failed' = failed \cup {"extract"}
              /\ ReplyClosed(c, ExtractNotFound("Error: "))
         ELSE /\ failed' = failed
              /\ \E response \in {[answer |-> a, confidence |-> Get(cf, 10)] :
                                       a \in ExtractAnswers, cf \in {<<>>}} :
                   IF response.answer # <<>>
                   THEN ReplyClosed(c, ExtractFound(valid_chunks, response))
                   ELSE ReplyClosed(c, ExtractNotFound("Not found in the documents"))

\* ---------------------------------------------------------- isaacus_iql
Call_isaacus_iql ==
    \E a \in [matter_id : Matters, document_ids : DocIdArgs] :
        Call("isaacus_iql", a)

IqlLocals == <<tool, args, env, candidates, valid_chunks, extraction, selected,
               hybrid_status, requests, rerank_outcome>>

\* rows of GET documents?matter_id=eq.<m>&processing_status=eq.ready
\* [&id=in.(document_ids)]
IqlRows(a) ==
    {i \in 1..Len(DocStore) :
        /\ DocStore[i].matter_id = a.matter_id
        /\ DocStore[i].processing_status = "ready"
        /\ (a.document_ids # {} => DocStore[i].id \in a.document_ids)}

\* sum(m.get("score", score) for m in matches)
RECURSIVE SumScores(_)
SumScores(matches) ==
    IF matches = <<>> THEN 0 ELSE matches[1].score + SumScores(Tail(matches))

\* total_matches and total_score as the loop accumulates them
RECURSIVE IqlTotals(_)
IqlTotals(document_results) ==
    IF document_results = <<>> THEN [total_matches |-> 0, total_score |-> 0]
    ELSE LET rest == IqlTotals(Tail(document_results))
         IN  [total_matches |-> document_results[1].match_count
                                 + rest.total_matches,
              total_score |-> SumScores(document_results[1].matches)
                               + rest.total_score]

\* the return after the loop; average_score is total_score / total_matches,
\* kept as the pair <<total_score, total_matches>>
IqlReturn(document_results) ==
    LET totals == IqlTotals(document_results)
    IN  [fields |-> {"query", "document_results", "total_matches", "average_score"},
         document_results |-> document_results,
         total_matches |-> totals.total_matches,
         average_score |-> IF totals.total_matches > 0
                           THEN <<totals.total_score, totals.total_matches>>
                           ELSE 0]

\* The documents request, up to isaacus_client = IsaacusClient(); nothing
\* catches an exception here.  Isaacus(api_key=None) with ISAACUS_API_KEY
\* unset: the SDK either refuses to construct the client or constructs one
\* whose requests are rejected.
IQ_Fetch ==
    /\ pc = "iq_fetch"
    /\ UNCHANGED <<IqlLocals, all_matches, classified, failed>>
    /\ \E out \in HttpOutcomes :
         LET c == Append(calls, "documents") IN
         IF out = TransportError
         THEN /\ UNCHANGED <<documents, doc_index>>
              /\ calls' = c /\ Raise
         ELSE IF out # 200
         THEN UNCHANGED <<documents, doc_index>> /\ Reply(c, IqlError)
         ELSE \E order \in RowOrders(IqlRows(args)) :
              LET docs == [i \in 1..Len(order) |-> DocStore[order[i]]] IN
              IF docs = <<>>
              THEN UNCHANGED <<documents, doc_index>> /\ Reply(c, IqlError)
              ELSE \E constructs \in (IF env.isaacus_key THEN {TRUE} ELSE BOOLEAN) :
                   /\ documents' = docs
                   /\ doc_index' = NextReadable(docs, 1)
                   /\ IF ~constructs THEN calls' = c /\ Raise
                      ELSE IF NextReadable(docs, 1) = 0
                      THEN ReplyClosed(Append(c, "IsaacusClient"), IqlReturn(<<>>))
                      ELSE Proceed(Append(c, "IsaacusClient"), "iq_classify")

\* the entry appended to document_results
IqlDocumentResult(doc, score, matches) ==
    [document_id |-> doc.id, filename |-> doc.filename, score |-> score,
     matches |-> matches, match_count |-> Len(matches), error |-> FALSE]

\* except Exception as e: the entry carrying "error"
IqlDocumentError(doc) ==
    [document_id |-> doc.id, filename |-> doc.filename, score |-> 0,
     matches |-> <<>>, match_count |-> 0, error |-> TRUE]

\* One turn of the loop for a document with text (blank ones are skipped
\* without a call), and close() and the return after the last one.  score
\* is classification.score of the SDK response.  A client without an API
\* key gets every request rejected.
IQ_Classify ==
    /\ pc = "iq_classify"
    /\ UNCHANGED <<IqlLocals, documents>>
    /\ LET doc == documents[doc_index]
           next == NextReadable(documents, doc_index + 1)
           c == Append(calls, "classify_iql")
       IN
       /\ classified' = Append(classified, doc.id)
       /\ doc_index' = next
       /\ \E sdk_raises \in (IF env.isaacus_key THEN BOOLEAN ELSE {TRUE}) :
          \E sdk_chunks \in (IF sdk_raises THEN {<<>>} ELSE SdkIqlResponses),
             score \in (IF sdk_raises THEN {0} ELSE {0, 9}) :
            LET entry == IF sdk_raises THEN IqlDocumentError(doc)
                         ELSE IqlDocumentResult(doc, score,
                                  ClientClassifyIql(doc.extracted_text, sdk_chunks))
                document_results == Append(all_matches, entry)
            IN  /\ all_matches' = document_results
                /\ failed' = IF sdk_raises THEN failed \cup {"classify_iql"}
                             ELSE failed
                /\ IF next = 0 THEN ReplyClosed(c, IqlReturn(document_results))
                   ELSE Proceed(c, "iq_classify")

\* ---------------------------------------------------------------- system
Next ==
    \/ Call_list_matter_documents
    \/ ListDocuments_Fetch
    \/ Call_get_document_text
    \/ GetDocumentText_Fetch
    \/ Call_legal_answer
    \/ LA_Embed
    \/ LA_Search
    \/ LA_Rerank
    \/ LA_Extract
    \/ Call_isaacus_search
    \/ IS_Embed
    \/ IS_Hybrid
    \/ IS_Legacy
    \/ IS_Rerank
    \/ IS_NoResults
    \/ Call_legal_classify
    \/ LC_FetchByIds
    \/ LC_PrefilterEmbed
    \/ LC_PrefilterSearch
    \/ LC_FetchSelected
    \/ LC_FetchAll
    \/ LC_Classify
    \/ Call_isaacus_extract
    \/ IE_Embed
    \/ IE_Hybrid
    \/ IE_Legacy
    \/ IE_Rerank
    \/ IE_Extract
    \/ Call_isaacus_iql
    \/ IQ_Fetch
    \/ IQ_Classify

Spec == Init /\ [][Next]_vars

\* The same pipeline where the extractor behind client.extract may also
\* accept the call legal_answer makes (a client or a test double with the
\* multi-text signature): the only place where legal_answer's handling of
\* an extraction response runs.  Every behaviour of Spec is one of these.
NextAccepted ==
    \/ Next
    \/ LA_ExtractAccepted

SpecAccepted == Init /\ [][NextAccepted]_vars

\* The citation permalink as a function of (document_id, chunk_id, start,
\* end): the tuple is drawn at the start, FormatPermalink builds the
\* permalink as legal_answer does.  chunk_id = <<>> is a row without one.
IdChars == {"a", "1", "-"}

FormatterIds == SeqsUpTo(IdChars, MaxIdLen) \ {<<>>}

FormatterArgs ==
    [document_id : FormatterIds, chunk_id : FormatterIds \cup {<<>>},
     start : 0..MaxPermalinkOffset, end : 0..MaxPermalinkOffset]

InitFormatter ==
    /\ tool = "format_permalink"
    /\ args \in FormatterArgs
    /\ env = [isaacus_key |-> TRUE, supabase_url |-> TRUE, service_role_key |-> TRUE,
              anon_key |-> TRUE, loop_running |-> FALSE]
    /\ pc = "idle"
    /\ failed = {}
    /\ rerank_outcome = "not_called"
    /\ requests = <<>>
    /\ calls = <<>>
    /\ result = NoResult
    /\ raised = FALSE
    /\ candidates = <<>>
    /\ valid_chunks = <<>>
    /\ extraction = NoExtraction
    /\ documents = <<>>
    /\ doc_index = 1
    /\ all_matches = <<>>
    /\ classified = <<>>
    /\ selected = {}
    /\ hybrid_status = NotRequested
    /\ attempt = 0
    /\ last_error = <<>>
    /\ sleeps = <<>>
    /\ responses = <<>>
    /\ pages_text = <<>>
    /\ ocr_needed_pages = <<>>

FormatPermalink ==
    /\ pc = "idle"
    /\ UNCHANGED failed
    /\ UNCHANGED rerank_outcome
    /\ UNCHANGED requests
    /\ tool = "format_permalink"
    /\ pc' = "done"
    /\ result' = [fields |-> {"permalink"},
                  permalink |-> AnswerPermalink(args.document_id, args.chunk_id,
                                                args.start, args.end)]
    /\ UNCHANGED <<tool, args, env, calls, raised, candidates, valid_chunks,
                   extraction, documents, doc_index, all_matches, classified,
                   selected, hybrid_status>>
    /\ UNCHANGED services

NextFormatter == FormatPermalink

SpecFormatter == InitFormatter /\ [][NextFormatter]_vars

\* isaacus_search over the whole range of max_results (IsaacusSearchInput:
\* ge=1, le=20), followed up to its search requests.
Call_isaacus_search_ranged ==
    \E a \in [matter_id : Matters, max_results : 1..20, threshold : {3}] :
        Call("isaacus_search", a)

NextSearchRequests ==
    \/ Call_isaacus_search_ranged
    \/ IS_Embed
    \/ IS_Hybrid
    \/ IS_Legacy

SpecSearchRequests == Init /\ [][NextSearchRequests]_vars

\* Cancellation of the running call while it awaits a request after the
\* client was constructed: CancelledError is not an Exception, so no
\* `except Exception` handler catches it; it leaves the coroutine through
\* `finally: await client.close()` where the tool has one.  isaacus_iql
\* has no try ... finally around its loop.
Cancel ==
    /\ pc \notin {"idle", "done"}
    /\ \E i \in 1..Len(calls) : calls[i] = "IsaacusClient"
    /\ UNCHANGED <<tool, args, env, candidates, valid_chunks, extraction,
                   documents, doc_index, all_matches, classified, selected,
                   hybrid_status, requests, rerank_outcome, failed>>
    /\ calls' = IF tool = "isaacus_iql" THEN calls ELSE Append(calls, "close")
    /\ Raise

NextCancel ==
    \/ Next
    \/ Cancel

SpecCancel == Init /\ [][NextCancel]_vars

\* ------------------------------------------- DeepSeekOCR._make_request
\* answers of the OCR endpoint: an HTTP status with the content of the
\* first choice (<<>>: the body carries no choice), or no answer at all
OcrStatuses == {200, 400, 404, 429, 500, 503}

OcrResponses ==
    {[status |-> 200, content |-> c] : c \in {<<>>, <<"text">>}}
        \cup {[status |-> s, content |-> <<>>] :
                 s \in (OcrStatuses \ {200}) \cup {TransportError}}

\* response.raise_for_status() / httpx.RequestError of client.post
OcrError(r) ==
    IF r.status = TransportError THEN [type |-> "RequestError", status |-> r.status]
    ELSE [type |-> "HTTPStatusError", status |-> r.status]

BackoffDelayLinear(n) == 2 * n

\* await asyncio.sleep(2**attempt)
BackoffDelay(n) == 2 ^ n

InitRetry ==
    /\ tool = "_make_request"
    /\ args \in [max_retries : 1..MaxRetries]
    /\ env = [isaacus_key |-> TRUE, supabase_url |-> TRUE, service_role_key |-> TRUE,
              anon_key |-> TRUE, loop_running |-> TRUE]
    /\ pc = "mr_post"
    /\ failed = {}
    /\ rerank_outcome = "not_called"
    /\ requests = <<>>
    /\ calls = <<>>
    /\ result = NoResult
    /\ raised = FALSE
    /\ candidates = <<>>
    /\ valid_chunks = <<>>
    /\ extraction = NoExtraction
    /\ documents = <<>>
    /\ doc_index = 1
    /\ all_matches = <<>>
    /\ classified = <<>>
    /\ selected = {}
    /\ hybrid_status = NotRequested
    /\ attempt = 0
    /\ last_error = <<>>
    /\ sleeps = <<>>
    /\ responses = <<>>
    /\ pages_text = <<>>
    /\ ocr_needed_pages = <<>>

\* the exception e leaves _make_request
MakeRequestRaise(e) ==
    /\ pc' = "done"
    /\ raised' = TRUE
    /\ result' = [fields |-> {"exception"}, exception |-> e]

\* One pass of `for attempt in range(self.max_retries)`: the post, the
\* handler of what it raised, the sleep, and the statements after the loop
\* when this was its last pass.
MakeRequest_Attempt ==
    /\ tool = "_make_request"
    /\ pc = "mr_post"
    /\ attempt < args.max_retries
    /\ \E r \in OcrResponses :
        /\ calls' = Append(calls, "post")
        /\ responses' = Append(responses, r)
        /\ IF r.status = 200
           THEN /\ UNCHANGED <<attempt, last_error, sleeps>>
                /\ IF r.content # <<>>
                   THEN /\ pc' = "done"
                        /\ raised' = FALSE
                        /\ result' = [fields |-> {"content"}, content |-> r.content[1]]
                   ELSE MakeRequestRaise([type |-> "KeyError", status |-> r.status])
           ELSE /\ last_error' = <<OcrError(r)>>
                /\ IF /\ r.status # TransportError
                      /\ 400 <= r.status /\ r.status < 500 /\ r.status # 429
                   THEN /\ UNCHANGED <<attempt, sleeps>>
                        /\ MakeRequestRaise(OcrError(r))
                   ELSE /\ sleeps' = Append(sleeps, BackoffDelay(attempt))
                        /\ attempt' = attempt + 1
                        /\ IF attempt + 1 < args.max_retries
                           THEN /\ pc' = "mr_post"
                                /\ UNCHANGED <<result, raised>>
                           ELSE MakeRequestRaise(OcrError(r))
    /\ UNCHANGED <<tool, args, env, candidates, valid_chunks, extraction, documents,
                   doc_index, all_matches, classified, selected, hybrid_status,
                   requests, rerank_outcome, failed, pages_text, ocr_needed_pages>>

NextRetry == MakeRequest_Attempt

\* the event loop runs the coroutine until it returns or raises
SpecRetry == InitRetry /\ [][NextRetry]_vars /\ WF_vars(NextRetry)

\* ------------------------------------ legal_answer from its kept chunks
\* A chunk row of document d2 with blank or readable content.
KeptChunk(n, blank) ==
    [ChunkStore[4] EXCEPT !.chunk_id = <<"k", Digit[n + 1]>>,
                          !.content = IF blank THEN <<" ">> ELSE <<"e", "f", "g">>]

\* chunks = chunks[:5]: one to five rows, each blank or readable
KeptLists ==
    {[i \in 1..Len(b) |-> KeptChunk(i, b[i])] : b \in SeqsUpTo(BOOLEAN, 5) \ {<<>>}}

\* legal_answer at STEP 4, after a search that returned the rows and a
\* rerank call that raised (chunks = chunks[:5])
InitKept ==
    /\ tool = "legal_answer"
    /\ args = [matter_id |-> "m1", document_ids |-> {}]
    /\ env = [isaacus_key |-> TRUE, supabase_url |-> TRUE, service_role_key |-> TRUE,
              anon_key |-> TRUE, loop_running |-> FALSE]
    /\ pc = "la_extract"
    /\ failed = {"rerank"}
    /\ rerank_outcome = "exception"
    /\ requests = <<AnswerSearchRequest(args)>>
    /\ calls = <<"IsaacusClient", "embed", "hybrid_search_chunks", "rerank">>
    /\ result = NoResult
    /\ raised = FALSE
    /\ candidates \in KeptLists
    /\ valid_chunks = <<>>
    /\ extraction = NoExtraction
    /\ documents = <<>>
    /\ doc_index = 1
    /\ all_matches = <<>>
    /\ classified = <<>>
    /\ selected = {}
    /\ hybrid_status = 200
    /\ attempt = 0
    /\ last_error = <<>>
    /\ sleeps = <<>>
    /\ responses = <<>>
    /\ pages_text = <<>>
    /\ ocr_needed_pages = <<>>

NextKept == LA_Extract

SpecKept == InitKept /\ [][NextKept]_vars

\* --------------------------- legal_classify over a matter of six documents
\* One chunk row of each of six documents w1..w6.
WideChunk(n) ==
    [ChunkStore[4] EXCEPT !.document_id = <<"w", Digit[n + 1]>>,
                          !.chunk_id = <<"k", Digit[n + 1]>>]

\* Bodies of the pre-filter search that rank the six rows in every order.
WideResponses ==
    {[i \in 1..6 |-> WideChunk(q[i])] :
        q \in {r \in Arrangements(1..6, 6) : Len(r) = 6 /\ Distinct(r)}}

LC_PrefilterSearchWide == PrefilterSearch(WideResponses, TRUE)

NextPrefilter ==
    \/ Call_legal_classify
    \/ LC_PrefilterEmbed
    \/ LC_PrefilterSearchWide

SpecPrefilter == Init /\ [][NextPrefilter]_vars

\* ---------------------------- DocumentProcessor._extract_pdf_pymupdf
\* Minimum text per PDF page to skip OCR
MIN_TEXT_THRESHOLD == 50

\* str.strip()
Strip(s) ==
    IF IsBlank(s) THEN <<>>
    ELSE LET inked == {i \in 1..Len(s) : s[i] \notin Whitespace}
             first == CHOOSE i \in inked : \A j \in inked : i <= j
             last == CHOOSE i \in inked : \A j \in inked : j <= i
         IN  SubSeq(s, first, last)

Text(n) == [i \in 1..n |-> "x"]

\* what page.get_text() gives for a page: nothing, white space, a short
\* line, and texts just under and at the threshold
NativeTexts == {<<>>, <<" ">>, <<" ">> \o Text(6), Text(49), Text(50)}

PdfArgs ==
    [pages : SeqsUpTo(NativeTexts, MaxPages) \ {<<>>}, use_ocr : BOOLEAN]

\* outcomes of ocr.extract_text_from_image: an exception (<<>>) or a text
OcrOutcomes ==
    {<<>>} \cup {<<t>> : t \in {<<>>, <<"[BLANK PAGE]", " ">>, <<"[UNREADABLE]">>,
                                <<"o", "c", "r">>}}

InitPdf ==
    /\ tool = "_extract_pdf_pymupdf"
    /\ args \in PdfArgs
    /\ env = [isaacus_key |-> TRUE, supabase_url |-> TRUE, service_role_key |-> TRUE,
              anon_key |-> TRUE, loop_running |-> TRUE]
    /\ pc = "pdf_native"
    /\ failed = {}
    /\ rerank_outcome = "not_called"
    /\ requests = <<>>
    /\ calls = <<>>
    /\ result = NoResult
    /\ raised = FALSE
    /\ candidates = <<>>
    /\ valid_chunks = <<>>
    /\ extraction = NoExtraction
    /\ documents = <<>>
    /\ doc_index = 1
    /\ all_matches = <<>>
    /\ classified = <<>>
    /\ selected = {}
    /\ hybrid_status = NotRequested
    /\ attempt = 0
    /\ last_error = <<>>
    /\ sleeps = <<>>
    /\ responses = <<>>
    /\ pages_text = <<>>
    /\ ocr_needed_pages = <<>>

\* "\n\n".join(text for text in pages_text if text); an entry of pages_text
\* is <<>> for None and <<text>> for a str
RECURSIVE JoinPages(_)
JoinPages(texts) ==
    IF texts = <<>> THEN <<>>
    ELSE LET rest == JoinPages(Tail(texts))
             text == IF texts[1] = <<>> THEN <<>> ELSE texts[1][1]
         IN  IF text = <<>> THEN rest
             ELSE IF rest = <<>> THEN text
             ELSE text \o <<"\n", "\n">> \o rest

PdfReturn(texts) ==
    /\ pc' = "done"
    /\ raised' = FALSE
    /\ result' = [fields |-> {"text"}, text |-> JoinPages(texts)]

\* pages_text entry of a page in the first pass
NativeEntry(raw, use_ocr) ==
    LET text == Strip(raw)
    IN  IF Len(text) >= MIN_TEXT_THRESHOLD THEN <<text>>
        ELSE IF use_ocr THEN <<>>
        ELSE <<IF text # <<>> THEN text ELSE <<"[No text extracted]">>>>

PdfLocals ==
    <<tool, args, env, candidates, valid_chunks, extraction, documents, doc_index,
      all_matches, classified, selected, hybrid_status, requests, rerank_outcome,
      failed, attempt, last_error, sleeps, responses>>

\* First pass: native text extraction (page numbers count from 1 here)
PDF_NativePass ==
    /\ tool = "_extract_pdf_pymupdf"
    /\ pc = "pdf_native"
    /\ UNCHANGED <<PdfLocals, calls>>
    /\ LET texts == [i \in 1..Len(args.pages) |->
                        NativeEntry(args.pages[i], args.use_ocr)]
           needed == SelectSeq([i \in 1..Len(args.pages) |-> i],
                         LAMBDA i : /\ Len(Strip(args.pages[i])) < MIN_TEXT_THRESHOLD
                                    /\ args.use_ocr)
       IN  /\ pages_text' = texts
           /\ ocr_needed_pages' = needed
           /\ IF needed # <<>> /\ args.use_ocr
              THEN pc' = "pdf_ocr" /\ UNCHANGED <<result, raised>>
              ELSE PdfReturn(texts)

\* pages_text entry written by _ocr_pages for one answer of the OCR client
OcrEntry(outcome) ==
    IF outcome = <<>> THEN <<<<>>>>
    ELSE LET ocr_text == outcome[1]
         IN  IF /\ ocr_text # <<>>
                /\ Strip(ocr_text) \notin {<<"[BLANK PAGE]">>, <<"[UNREADABLE]">>}
             THEN <<ocr_text>>
             ELSE <<<<>>>>

\* Second pass: one iteration of `for page_num, image_data in pages`, and
\* the join after the last one.  The placeholders left in pages_text are
\* the pages the loop has not reached.
PDF_OcrPage ==
    /\ tool = "_extract_pdf_pymupdf"
    /\ pc = "pdf_ocr"
    /\ UNCHANGED <<PdfLocals, ocr_needed_pages>>
    /\ LET pending == SelectSeq(ocr_needed_pages, LAMBDA p : pages_text[p] = <<>>)
           page_num == pending[1]
       IN  \E outcome \in OcrOutcomes :
             LET texts == [pages_text EXCEPT ![page_num] = OcrEntry(outcome)]
             IN  /\ calls' = Append(calls, "extract_text_from_image")
                 /\ pages_text' = texts
                 /\ IF Len(pending) > 1
                    THEN pc' = "pdf_ocr" /\ UNCHANGED <<result, raised>>
                    ELSE PdfReturn(texts)

NextPdf ==
    \/ PDF_NativePass
    \/ PDF_OcrPage

SpecPdf == InitPdf /\ [][NextPdf]_vars

\* ------------------------------------------------------------ properties
Done(t) == pc = "done" /\ tool = t

Returned(t) == Done(t) /\ ~raised

\* the extract call has been attempted
ExtractCalled == \E i \in 1..Len(calls) : calls[i] = "extract"

\* the hybrid search answered with an error status
HybridRejected == hybrid_status \notin {NotRequested, TransportError, 200}

\* C1: no exception propagates out of a tool function, whatever the external
\* calls do and whether or not an event loop is already running.
C1_NoExceptionEscapes == ~raised

\* C2 (as claimed): once hybrid_search_chunks has answered non-200,
\* isaacus_search returns results = [] and legal_answer returns found = false,
\* and neither raises.
C2_EmptyAfterHybridError ==
    (pc = "done" /\ HybridRejected /\ tool \in {"isaacus_search", "legal_answer"}) =>
        /\ ~raised
        /\ tool = "isaacus_search" => result.results = <<>>
        /\ tool = "legal_answer" => ~result.found

\* every result of isaacus_search comes from a row of the legacy search
FromLegacyRows ==
    \A i \in 1..Len(result.results) :
        \E j \in 1..Len(candidates) :
            /\ candidates[j].chunk_id = <<>>
            /\ candidates[j].id = result.results[i].chunk_id
            /\ candidates[j].chunk_text = result.results[i].chunk_text

\* C2 (amended): once hybrid_search_chunks has answered non-200, neither tool
\* raises; legal_answer returns found = false with an error field, and
\* isaacus_search returns total_found = len(results) where the results are
\* rows of the legacy search (none, with an error field, when that search
\* fails too).
C2_StructuredAfterHybridError ==
    (pc = "done" /\ HybridRejected /\ tool \in {"isaacus_search", "legal_answer"}) =>
        /\ ~raised
        /\ tool = "legal_answer" =>
              /\ ~result.found
              /\ result.citation = <<>>
              /\ "error" \in result.fields
        /\ tool = "isaacus_search" =>
              /\ result.total_found = Len(result.results)
              /\ FromLegacyRows
              /\ "error" \in result.fields => result.results = <<>>

C2_Witness ==
    /\ Returned("isaacus_search")
    /\ HybridRejected
    /\ Len(result.results) = 2

\* C3: legal_answer returns found = false, no citation and confidence 0 when
\* the search returned no candidates, when no chunk given to the extraction
\* step has non-blank content, and when the extract call gave no answer or
\* raised; found = true only with a non-empty answer and a source chunk
\* obtained from the extraction.
C3_FoundOnlyWithAnswer ==
    Returned("legal_answer") =>
        /\ ( \/ (hybrid_status = 200 /\ candidates = <<>>)
             \/ (hybrid_status = 200 /\ candidates # <<>> /\ pc = "done"
                 /\ \A i \in 1..Min(3, Len(candidates)) :
                        IsBlank(candidates[i].content))
             \/ extraction.outcome \in {"exception", "none", "TypeError"}
             \/ (extraction.outcome = "response" /\ extraction.response.answer = <<>>) )
           => (~result.found /\ result.citation = <<>> /\ result.confidence = 0)
        /\ result.found =>
              /\ extraction.outcome = "response"
              /\ extraction.response.answer # <<>>
              /\ result.answer = extraction.response.answer
              /\ Len(result.citation) = 1
              /\ \E i \in 1..Len(valid_chunks) :
                    /\ valid_chunks[i].document_id = result.citation[1].document_id
                    /\ valid_chunks[i].chunk_id = result.citation[1].chunk_id

C3_Witness ==
    /\ Returned("legal_answer")
    /\ extraction.outcome = "response"
    /\ extraction.response.answer = <<>>
    /\ extraction.response.start # <<>>
    /\ ~result.found

\* the extraction service was reached and declined to answer
ExtractorDeclined ==
    \/ extraction.outcome \in {"exception", "none"}
    \/ extraction.outcome = "response" /\ extraction.response.answer = <<>>

\* C4: with all credentials set, the search returning a non-blank chunk and
\* an extraction service that does not decline, the extract call legal_answer
\* makes yields found = true with a chunk-offset permalink.
C4_ScenarioFound ==
    (Returned("legal_answer") /\ ExtractCalled /\ ~ExtractorDeclined) =>
        /\ result.found
        /\ Len(result.citation) = 1

\* the chunks kept for extraction that the citation's ids name
CitedChunks ==
    {i \in 1..Len(valid_chunks) :
        /\ valid_chunks[i].document_id = result.citation[1].document_id
        /\ valid_chunks[i].chunk_id = result.citation[1].chunk_id}

ReportedTextIndex ==
    /\ extraction.outcome = "response"
    /\ extraction.response.text_index # <<>>
    /\ extraction.response.text_index[1] < Len(extraction.texts)

\* C6: when the extractor reports text_index = i inside the submitted texts,
\* the citation carries the document id, chunk id, filename, page and section
\* of the chunk whose content was the i-th text; texts and chunks stay
\* aligned after blank chunks are dropped.
C6_CitationOfReportedChunk ==
    (Returned("legal_answer") /\ extraction.outcome # "not_called") =>
        /\ Len(extraction.texts) = Len(valid_chunks)
        /\ \A j \in 1..Len(extraction.texts) :
              /\ valid_chunks[j].content = extraction.texts[j]
              /\ ~IsBlank(extraction.texts[j])
        /\ (result.found /\ ReportedTextIndex) =>
              \E j \in 1..Len(candidates) :
                 /\ candidates[j].content
                        = extraction.texts[extraction.response.text_index[1] + 1]
                 /\ result.citation[1].document_id = candidates[j].document_id
                 /\ result.citation[1].chunk_id = candidates[j].chunk_id
                 /\ result.citation[1].formatted[1] = <<"", <<candidates[j].filename>>>>
                 /\ (candidates[j].page # "") =>
                        result.citation[1].formatted[2] = <<"p.", <<candidates[j].page>>>>
                 /\ (candidates[j].section_path # <<>>) =>
                        result.citation[1].formatted[Len(result.citation[1].formatted)][2]
                            = candidates[j].section_path[1]

C6_Witness ==
    /\ Returned("legal_answer")
    /\ result.found
    /\ ReportedTextIndex
    /\ extraction.response.text_index[1] = 1
    /\ Len(candidates) > Len(valid_chunks)
    /\ IsBlank(candidates[1].content)

RECURSIVE SumCounts(_, _)
SumCounts(f, keys) ==
    IF keys = {} THEN 0
    ELSE LET k == CHOOSE x \in keys : TRUE
         IN  f[k] + SumCounts(f, keys \ {k})

\* C7: in every result of legal_classify total_found = len(matches), every
\* match's document is a key of matches_by_document, and the counts sum to
\* total_found (a result without the grouping has no matches).
C7_Completeness ==
    Returned("legal_classify") =>
        /\ result.total_found = Len(result.matches)
        /\ \A i \in 1..Len(result.matches) :
              result.matches[i].citation.document_id
                  \in DOMAIN result.matches_by_document
        /\ SumCounts(result.matches_by_document,
                     DOMAIN result.matches_by_document) = result.total_found
        /\ "matches_by_document" \notin result.fields => result.matches = <<>>

C7_Witness ==
    /\ Returned("legal_classify")
    /\ result.total_found = 3
    /\ Cardinality(DOMAIN result.matches_by_document) = 2
    /\ result.searched_documents = 2

\* C8: every document whose text legal_classify sends to classify_iql
\* belongs to the matter of the call and is ready.
C8_ClassifiedWithinMatter ==
    tool = "legal_classify" =>
        \A i \in 1..Len(classified) :
            /\ DocById(classified[i]).matter_id = args.matter_id
            /\ DocById(classified[i]).processing_status = "ready"

\* permalinks in the returned result
EmittedPermalinks ==
    IF ~(pc = "done" /\ ~raised) THEN {}
    ELSE IF tool = "legal_answer"
         THEN {result.citation[i].permalink : i \in 1..Len(result.citation)}
    ELSE IF tool = "isaacus_search"
         THEN {result.results[i].citation.permalink : i \in 1..Len(result.results)}
    ELSE IF tool = "legal_classify"
         THEN {result.matches[i].citation.permalink : i \in 1..Len(result.matches)}
    ELSE {}

C10_RoundTrip ==
    (pc = "done" /\ tool = "format_permalink") =>
        ParsePermalink(result.permalink) =
            [ok |-> TRUE, document_id |-> args.document_id,
             chunk_id |-> args.chunk_id, has_offsets |-> TRUE,
             start |-> args.start, end |-> args.end]

\* C11: isaacus_search returns at most max_results results and total_found
\* equals the number of results returned, on the reranked, fallback and
\* single-candidate paths, whatever list the reranker returns.
C11_AtMostMaxResults ==
    Returned("isaacus_search") =>
        /\ Len(result.results) <= args.max_results
        /\ result.total_found = Len(result.results)

\* the results carry the reranker's scores
AllScored ==
    \A i \in 1..Len(result.results) : result.results[i].rerank_score # <<>>

\* C12: reranked = true only when the results are the reranker's selection,
\* each with a rerank_score; results in retrieval-order fallback (no
\* rerank_score) come with reranked = false, for every reranker outcome.
C12_RerankedFlagHonest ==
    Returned("isaacus_search") =>
        /\ result.reranked => (rerank_outcome = "items" /\ AllScored)
        /\ (result.results # <<>> /\ ~AllScored) => ~result.reranked

\* C18: with reranked = true the results are in non-increasing order of
\* rerank_score, in whatever order the reranker returned its items.
C18_ScoreOrder ==
    (Returned("isaacus_search") /\ result.reranked /\ AllScored) =>
        \A i, j \in 1..Len(result.results) :
            i < j => result.results[i].rerank_score[1]
                        >= result.results[j].rerank_score[1]

\* C13: when an Isaacus embed, extract or classify_iql call raises in
\* legal_answer or legal_classify, the result carries an error field with
\* found = false / no matches, so the failure differs from a no-match run.
C13_ServiceFailureReported ==
    (pc = "done" /\ tool \in {"legal_answer", "legal_classify"}
                 /\ failed \cap {"embed", "extract", "classify_iql"} # {}) =>
        /\ ~raised
        /\ "error" \in result.fields
        /\ tool = "legal_answer" => ~result.found
        /\ tool = "legal_classify" => result.matches = <<>>

\* the documents the matter really has, by processing status
MatterHas(matter_id, statuses) ==
    \E i \in 1..Len(DocStore) :
        /\ DocStore[i].matter_id = matter_id
        /\ DocStore[i].processing_status \in statuses

\* C14: when the search returns zero candidates, isaacus_search returns
\* results = [], total_found = 0 and no error field, with a hint that agrees
\* with the matter: 'no content matched' exactly when a document is ready,
\* 'still being processed' only when none is ready and one is pending,
\* extracting or embedding, 'no documents have been uploaded' only when the
\* matter has no documents.
C14_HintMatchesMatter ==
    (Returned("isaacus_search") /\ candidates = <<>>
     /\ \E i \in 1..Len(calls) : calls[i] = "GET documents") =>
        /\ result.results = <<>>
        /\ result.total_found = 0
        /\ "error" \notin result.fields
        /\ "hint" \in result.fields
        /\ result.hint = "no content matched"
              <=> MatterHas(args.matter_id, {"ready"})
        /\ result.hint = "still being processed" =>
              /\ ~MatterHas(args.matter_id, {"ready"})
              /\ MatterHas(args.matter_id, {"pending", "extracting", "embedding"})
        /\ result.hint = "no documents have been uploaded" =>
              DocsOfMatter(args.matter_id) = <<>>

\* the two search RPCs carry the same embedding, matter, threshold and count
SameSearch(r1, r2) ==
    /\ r1.query_embedding = r2.query_embedding
    /\ r1.matter_uuid = r2.matter_uuid
    /\ r1.match_threshold = r2.match_threshold
    /\ r1.match_count = r2.match_count

\* C16: in isaacus_search a non-200 answer of hybrid_search_chunks is
\* followed by exactly one match_document_chunks call with the same query
\* embedding, matter id, match_threshold and match_count, whose response
\* decides the outcome; after a 200 answer the legacy function is not called.
C16_LegacyFallbackOnce ==
    tool = "isaacus_search" =>
        /\ Len(requests) <= 2
        /\ Len(requests) >= 1 => requests[1].fn = "hybrid_search_chunks"
        /\ Len(requests) = 2 =>
              /\ HybridRejected
              /\ requests[2].fn = "match_document_chunks"
              /\ SameSearch(requests[1], requests[2])
        /\ (pc = "done" /\ HybridRejected) =>
              /\ Len(requests) = 2
              /\ ~raised
              /\ "error" \in result.fields \/ FromLegacyRows
        /\ pc = "is_legacy" => (HybridRejected /\ Len(requests) = 1)
        /\ hybrid_status = 200 => Len(requests) = 1

C16_Witness ==
    /\ Returned("isaacus_search")
    /\ HybridRejected
    /\ Len(requests) = 2
    /\ result.reranked
    /\ Len(result.results) = 2
    /\ args.max_results = 2

\* C17: in legal_answer a non-200 answer of the hybrid search is followed by
\* an attempt of the legacy vector search with the same threshold and count
\* before a failure result is returned.
C17_AnswerTriesLegacy ==
    (Done("legal_answer") /\ HybridRejected) =>
        \E i \in 1..Len(requests) :
            /\ requests[i].fn = "match_document_chunks"
            /\ SameSearch(requests[1], requests[i])

\* the step in which the reranking stage hears from client.rerank
RerankStep == rerank_outcome = "not_called" /\ rerank_outcome' # "not_called"

\* C19: when client.rerank raises or names an index outside the candidates,
\* the pipeline goes on with the candidates in retrieval order and no error:
\* isaacus_search returns the first max_results candidates, legal_answer
\* proceeds to extraction with the first at most 5.
C19_RerankFailureKeepsOrder ==
    [][(RerankStep /\ rerank_outcome' \in {"exception", "bad_index"}) =>
          /\ ~raised'
          /\ "error" \notin result'.fields
          /\ tool = "isaacus_search" =>
                /\ pc' = "done"
                /\ result'.results = SearchFallback(candidates, args.max_results)
          /\ tool = "legal_answer" =>
                /\ pc' = "la_extract"
                /\ candidates' = Take(candidates, 5)]_vars

\* C20: with exactly one candidate from retrieval the reranker is not called
\* and the candidate goes on without a rerank score.
C20_SingleCandidateSkipsRerank ==
    [][/\ RerankStep => Len(candidates) # 1
       /\ (tool' = "isaacus_search" /\ pc' = "done" /\ Len(candidates') = 1) =>
             /\ rerank_outcome' = "not_called"
             /\ Len(result'.results) = 1
             /\ result'.results[1].rerank_score = <<>>
       /\ (tool = "isaacus_extract" /\ pc = "ie_rerank" /\ Len(candidates) = 1) =>
             /\ rerank_outcome' = "not_called"
             /\ pc' = "ie_extract"
             /\ valid_chunks' = <<[chunk |-> candidates[1], rerank_score |-> <<>>]>>]_vars

\* C15: a tool (those that construct an IsaacusClient need the API key, the
\* others only the Supabase credentials) called without a running event loop while a
\* credential it needs is missing returns a result with an error field,
\* without raising, having made no external request and constructed no
\* IsaacusClient.
C15_MissingCredentialFailsFast ==
    LET uses_isaacus == NeedsIsaacus(tool) \/ tool = "isaacus_iql"
        credential_missing ==
            \/ uses_isaacus /\ ~env.isaacus_key
            \/ ~env.supabase_url
            \/ ~SupabaseKey(env)
    IN  (pc = "done" /\ tool # "none" /\ ~env.loop_running
         /\ credential_missing) =>
            /\ ~raised
            /\ "error" \in result.fields
            /\ calls = <<>>

\* C21: every search request of isaacus_search, hybrid or legacy, asks for
\* match_count = 3 * max_results, for every max_results in 1..20.
C21_TripleCount ==
    tool = "isaacus_search" =>
        \A i \in 1..Len(requests) : requests[i].match_count = 3 * args.max_results

RECURSIVE CollectedInOrder(_, _)
CollectedInOrder(ms, ids) ==
    IF ids = <<>> THEN <<>>
    ELSE SelectSeq(ms, LAMBDA m : m.citation.document_id = ids[1])
         \o CollectedInOrder(ms, Tail(ids))

\* C24: the matches legal_classify returns are in non-increasing score order
\* and are the same sequence for every order in which the documents'
\* results are collected.
C24_OrderIndependent ==
    (Returned("legal_classify") /\ "error" \notin result.fields) =>
        /\ \A i, j \in 1..Len(result.matches) :
              i < j => result.matches[i].score >= result.matches[j].score
        /\ LET ids == {classified[i] : i \in 1..Len(classified)}
           IN  \A order \in {q \in Arrangements(ids, Cardinality(ids)) :
                                Len(q) = Cardinality(ids) /\ Distinct(q)} :
                   SortByScore(CollectedInOrder(all_matches, order))
                       = result.matches

\* C23: for the same chunk metadata the formatted citation isaacus_search
\* emits is the one legal_answer builds: filename, "p.<page>" when there is a
\* page, and "§ " with the numeric prefix of the last section-path element
\* or else the first words of the heading.
C23_OneFormatter ==
    (Returned("isaacus_search") /\ "error" \notin result.fields
     /\ ~result.reranked) =>
        \A i \in 1..Len(result.results) :
            result.results[i].citation.formatted
                = AnswerFormattedParts(candidates[i])

\* C25: once a tool has constructed an IsaacusClient, client.close() has been
\* called exactly once when the tool is left, by a return, by an exception or
\* by cancellation.
C25_ClosedOnce ==
    (pc = "done" /\ \E i \in 1..Len(calls) : calls[i] = "IsaacusClient") =>
        Cardinality({i \in 1..Len(calls) : calls[i] = "close"}) = 1

\* C26: DeepSeekOCR._make_request with max_retries >= 1.  A 4xx answer
\* other than 429 is raised at once, with no sleep after it; every 5xx, 429
\* or transport failure is followed by a sleep of 2^attempt seconds and,
\* while attempts remain, by another request; no more than max_retries
\* requests are sent; the call ends, returning the content of the first
\* successful answer or raising the error of the last answer.
C26_RetryOutcome ==
    tool = "_make_request" =>
        LET n == Len(responses)
            permanent(r) == r.status \in {400, 404}
            transient(r) == r.status \in {429, 500, 503, TransportError}
        IN  /\ n <= args.max_retries
            /\ Len(calls) = n
            /\ \A i \in 1..n : calls[i] = "post"
            /\ \A i \in 1..(n - 1) : transient(responses[i])
            /\ Len(sleeps) = Cardinality({i \in 1..n : transient(responses[i])})
            /\ \A i \in 1..Len(sleeps) : sleeps[i] = 2 ^ (i - 1)
            /\ pc # "done" => n < args.max_retries /\ ~raised
            /\ pc = "done" =>
                /\ n >= 1
                /\ responses[n].status = 200 /\ responses[n].content # <<>> =>
                       /\ ~raised
                       /\ result.content = responses[n].content[1]
                /\ responses[n].status = 200 /\ responses[n].content = <<>> =>
                       raised
                /\ permanent(responses[n]) =>
                       /\ raised
                       /\ result.exception.status = responses[n].status
                       /\ Len(sleeps) = n - 1
                /\ transient(responses[n]) =>
                       /\ raised
                       /\ result.exception.status = responses[n].status
                       /\ last_error = <<result.exception>>
                       /\ n = args.max_retries

C26_Terminates == <>(pc = "done")

\* C26: every state of a _make_request call satisfies C26_RetryOutcome, and
\* the call terminates.
C26_RetryThenRaise == [](C26_RetryOutcome) /\ C26_Terminates

C26_Witness ==
    /\ tool = "_make_request"
    /\ pc = "done"
    /\ args.max_retries = 3
    /\ Len(responses) = 3
    /\ responses[1].status = 500
    /\ responses[2].status = 429
    /\ responses[3].status = 404
    /\ sleeps = <<1, 2>>
    /\ raised

\* C27: legal_answer.  When a chunk kept after reranking has non-blank
\* content, extraction is attempted on the non-empty texts; the answer
\* 'No readable content found in relevant documents' is returned only when
\* every kept chunk is blank.
C27_ReadableChunkExtracted ==
    Returned("legal_answer") /\ Len(candidates) >= 1 /\ hybrid_status = 200 =>
        LET readable == {i \in 1..Len(candidates) : ~IsBlank(candidates[i].content)}
        IN  /\ readable # {} => extraction.outcome # "not_called"
            /\ result.answer = <<"No readable content found in relevant documents">>
                   => readable = {}

\* C28: legal_classify.  When the pre-filter search returns chunks of more
\* than five distinct documents, the documents selected are the first five
\* distinct document ids in rank order.
C28_FirstFiveInRankOrder ==
    tool = "legal_classify" /\ hybrid_status = 200 /\ pc = "lc_fetch_selected" =>
        LET ids == [i \in 1..Len(candidates) |-> candidates[i].document_id]
            first(i) == \A j \in 1..(i - 1) : ids[j] # ids[i]
            rank(i) == Cardinality({j \in 1..i : first(j)})
        IN  Cardinality({ids[i] : i \in 1..Len(ids)}) > 5 =>
                selected = {ids[i] : i \in {j \in 1..Len(ids) : first(j) /\ rank(j) <= 5}}

\* C29: isaacus_extract.  When an answer is returned and at least one of
\* the top chunks contains it, the first citation is the one of the
\* highest-ranked chunk containing the answer, and no citation of a chunk
\* without the answer precedes one of a chunk with it (top chunks that are
\* different rows).
C29_PrimaryIsBestContaining ==
    /\ Returned("isaacus_extract")
    /\ "primary_citation" \in result.fields
    /\ \A i, j \in 1..Len(valid_chunks) :
           i # j => valid_chunks[i].chunk # valid_chunks[j].chunk
    =>  LET has(chunk) == Contains(Lower(GetChunkText(chunk)), Lower(result.answer))
            containing == {i \in 1..Len(valid_chunks) : has(valid_chunks[i].chunk)}
            best == CHOOSE i \in containing : \A j \in containing : i <= j
            cited(k) == CHOOSE i \in 1..Len(valid_chunks) :
                            ExtractCitation(valid_chunks[i]) = result.citations[k]
        IN  containing # {} =>
                /\ result.citations[1] = ExtractCitation(valid_chunks[best])
                /\ \A k \in 2..Len(result.citations) :
                       has(valid_chunks[cited(k)].chunk)
                           => has(valid_chunks[cited(k - 1)].chunk)

\* C30: DocumentProcessor PDF extraction.  Every page whose native text is
\* not empty contributes text to the output, in page order, whatever the
\* OCR setting or the OCR outcome; OCR is requested only for pages whose
\* native text is shorter than MIN_TEXT_THRESHOLD.
C30_NativeTextKept ==
    tool = "_extract_pdf_pymupdf" =>
        /\ \A k \in 1..Len(ocr_needed_pages) :
               Len(Strip(args.pages[ocr_needed_pages[k]])) < 50
        /\ Len(calls) <= Len(ocr_needed_pages)
        /\ pc = "done" =>
               /\ result.text = JoinPages(pages_text)
               /\ \A i \in 1..Len(args.pages) :
                      Strip(args.pages[i]) # <<>> =>
                          pages_text[i] # <<>> /\ pages_text[i][1] # <<>>

====
